---- MODULE Spec2Model ----
(***************************************************************************)
(* One NavigationHandler (the per-conversation session of telegram_menu)  *)
(* with its menu stack, its application-message queue and its poll, and   *)
(* the Transport (the Telegram bot) it talks to.                          *)
(*                                                                         *)
(* Every operation of the session is one action: it runs the whole        *)
(* coroutine, every Transport call included.  The application that owns   *)
(* the messages is the one of src/tests/test_connection.py: a start menu, *)
(* two sub-menus, two "action" application messages and one "options"     *)
(* application message.                                                    *)
(***************************************************************************)
EXTENDS Integers, Sequences, FiniteSets, TLC

VARIABLES
    menu_queue,         \* NavigationHandler._menu_queue: Seq(Menus)
    message_queue,      \* NavigationHandler._message_queue: Seq(Apps)
    label,              \* BaseMessage.label of each application message
    message_id,         \* BaseMessage.message_id, -1 until sent
    time_alive,         \* BaseMessage.time_alive (clock value of is_alive)
    keyboard,           \* BaseMessage.keyboard of each application message (rows)
    content_previous,   \* BaseMessage.content_previous
    keyboard_previous,  \* BaseMessage.keyboard_previous (rows)
    shared_rows,        \* the indexes of the rows that are one list object in keyboard and keyboard_previous
    play_pause,         \* OptionsAppMessage.play_pause
    shared_content,     \* ActionAppMessage.shared_content is set
    poll,               \* NavigationHandler._poll: [id, options], id 0 is None
    poll_callback,      \* NavigationHandler._poll_callback
    poll_job,           \* the scheduler holds a job under poll_name
    shown,              \* Transport: ids of the messages the client shows
    nextId,             \* Transport: the id the next sent message gets
    now,                \* the clock
    started,            \* the start command of this session has been handled
    suspended,          \* the coroutines that await a Transport call or sleep, if any
    draft,              \* a BaseMessage the application constructs: label, inlined, keyboard
    sessions,           \* TelegramMenuSession.sessions: the chat_id of each session
    setup,              \* TelegramMenuSession: the configuration given to start(), the scheduler runs, polling runs
    jobs,               \* the scheduler's jobs: [id, session], session an index of sessions
    session_polls,      \* NavigationHandler._poll of the sessions of the registry: the id of the poll message, by index
    root,               \* history: the first menu pushed on the stack
    polls,              \* history: ids of the poll messages sent so far
    bound,              \* history: the poll _poll_callback was bound for, 0 if none
    superseded,         \* history: polls replaced while they awaited an answer
    op,                 \* history: the last operation and its argument
    ret,                \* history: what it returned
    log                 \* history: its Transport calls and handler calls

vars == <<menu_queue, message_queue, label, message_id, time_alive, keyboard,
          content_previous, keyboard_previous, play_pause, shared_content, poll,
          poll_callback,
          poll_job, shown, nextId, now, started, suspended, draft, sessions, jobs,
          setup, shared_rows, session_polls, root, polls, bound, superseded, op, ret, log>>

----------------------------------------------------------------------------
(* Bounds of the model *)

\* the Transport hands out the ids 1..MaxId, then no more message is sent
MaxId == 4
\* the clock runs from 0 to MaxTime
MaxTime == 2
\* Transport calls 1..MaxCalls of one operation may be rejected
MaxCalls == 2
\* the labels the application gives have up to MaxLen characters
MaxLen == 2
\* the application adds up to MaxButtons buttons to a message it constructs
MaxButtons == 1
\* the conversations have the chat ids 1..MaxChats
MaxChats == 2
\* up to MaxSessions sessions are created
MaxSessions == 4
\* the application fills a keyboard with up to MaxGrid buttons
MaxGrid == 5

----------------------------------------------------------------------------
(* The application: the messages of src/tests/test_connection.py *)

None == "None"

Menus == {"Start", "Second", "Third"}

Apps == {"ActionA", "ActionB", "Options"}

Messages == Menus \cup Apps

\* BaseMessage.inlined
inlined(m) == m \in Apps

\* BaseMessage.picture is set
picture(m) == m \in {"Second", "ActionB"}

\* home_after as it would be if no message set it
home_after_never(m) == FALSE

\* BaseMessage.home_after: ActionAppMessage sets it
home_after(m) == m \in {"ActionA", "ActionB"}

\* BaseMessage.expiry_period, in clock ticks above the first: the default
\* EXPIRING_DELAY is the long one, the 5 seconds of the sub-menus and action
\* messages the short one
expiry_period(m) == IF m \in {"Start", "Options"} THEN 1 ELSE 0

\* the label a message is constructed with, as a sequence of characters
\* (a word without "#" or "_" is a single character of the model)
InitLabel(m) ==
    CASE m = "Start" -> <<"start">>
      [] m = "Second" -> <<"second", "_", "message">>
      [] m = "Third" -> <<"third", "_", "message">>
      [] m = "Options" -> <<"options">>
      [] OTHER -> <<"action">>

\* a button: label, callback (a message, a handler or None), btype
Btn(l, c, t) == [label |-> l, callback |-> c, btype |-> t]

Handlers == {"sticker_default", "action_button", "action_poll"}

\* the handlers of the buttons of the menus
MenuHandlers == {"goto_back", "webapp_cb"}

\* the keyboards the menus are constructed with by add_button (rows of
\* buttons): both Start and Second lead to an "action" message, each to its own
MenuKeyboard(m) ==
    CASE m = "Start" ->
            <<  <<Btn("Action", "ActionA", "NOTIFICATION"),
                  Btn("Option", "Options", "NOTIFICATION")>>,
                <<Btn("Second menu", "Second", "NOTIFICATION"),
                  Btn("webapp", "webapp_cb", "NOTIFICATION")>> >>
      [] m = "Second" ->
            <<  <<>>,
                <<Btn("Third menu", "Third", "NOTIFICATION")>>,
                <<Btn("Action", "ActionB", "NOTIFICATION"),
                  Btn("Back", None, "NOTIFICATION")>>,
                <<Btn("Home", None, "NOTIFICATION")>> >>
      [] m = "Third" ->
            <<  <<Btn("Back", None, "NOTIFICATION"),
                  Btn("Back2", "goto_back", "NOTIFICATION")>>,
                <<Btn("Home", None, "NOTIFICATION")>> >>
      [] OTHER -> << <<>> >>

\* the keyboard OptionsAppMessage.update() builds: the first button's label
\* follows play_pause
OptionsKeyboard(pp) ==
    <<  <<Btn(IF pp THEN "play" ELSE "pause", "sticker_default", "STICKER")>>,
        <<Btn("act", "action_button", "NOTIFICATION"),
          Btn("poll", "action_poll", "POLL")>> >>

\* the options of the polls: btn.args[1] of the poll button, and another list
\* for a poll the application sends itself
PollOptions == {<<"A", "B">>, <<"C", "D">>}

ButtonPollOptions == <<"A", "B">>

----------------------------------------------------------------------------
(* Sequences *)

Last(q) == q[Len(q)]

RECURSIVE Flatten(_)
\* [y for x in rows for y in x]
Flatten(rows) ==
    IF rows = <<>> THEN <<>> ELSE Head(rows) \o Flatten(Tail(rows))

Labels(btns) == [i \in 1..Len(btns) |-> btns[i].label]

\* the index of the first element of q that satisfies Test, 0 if none
FirstIndex(q, Test(_)) ==
    IF \E i \in 1..Len(q) : Test(q[i])
    THEN CHOOSE i \in 1..Len(q) : Test(q[i]) /\ \A j \in 1..(i - 1) : ~Test(q[j])
    ELSE 0

\* list.remove(x): q without its first element equal to x
Remove(q, x) ==
    LET i == FirstIndex(q, LAMBDA y : y = x)
    IN  IF i = 0 THEN q ELSE SubSeq(q, 1, i - 1) \o SubSeq(q, i + 1, Len(q))

\* x in q
In(x, q) == \E i \in 1..Len(q) : q[i] = x

----------------------------------------------------------------------------
(* The state an operation works on, and what it gives back *)

\* the session and Transport as a record, with the number of Transport calls
\* made so far by the running operation
Cur ==
    [menu_queue |-> menu_queue, message_queue |-> message_queue, label |-> label,
     message_id |-> message_id, time_alive |-> time_alive, keyboard |-> keyboard,
     content_previous |-> content_previous, keyboard_previous |-> keyboard_previous,
     play_pause |-> play_pause, shared_content |-> shared_content,
     poll |-> poll, poll_callback |-> poll_callback, poll_job |-> poll_job,
     shown |-> shown, nextId |-> nextId, polls |-> polls,
     shared_rows |-> shared_rows,
     log |-> <<>>, calls |-> 0]

\* a returned value: an int, a bool (v is 1 or 0), None, or an exception
RetInt(v) == [k |-> "int", v |-> v]
RetBool(b) == [k |-> "bool", v |-> IF b THEN 1 ELSE 0]
RetNone == [k |-> "none", v |-> 0]
Raised == [k |-> "raise", v |-> 0]
NavigationException == [k |-> "raise", v |-> 1]

\* the outcome of a coroutine: the state it leaves and what it returned
R(s, r) == [s |-> s, ret |-> r]

\* no Transport call is in flight
NoCall == [m |-> None, at |-> None, id |-> 0, i |-> 0]

\* an entry of the log: a Transport call (send_message, send_photo, send_poll,
\* delete_message, edit_message_text, ...) with the id it is about and whether
\* the Transport accepted it, or a call of an application handler
Ev(t, id, ok, x) == [t |-> t, id |-> id, ok |-> ok, x |-> x]

----------------------------------------------------------------------------
(* Transport: the calls of telegram.Bot.  F is the set of the calls of the   *)
(* running operation (by their number) that the remote side rejects with     *)
(* BadRequest.                                                               *)

\* send_message, send_photo, send_sticker, send_poll: a new message with the
\* next id, or BadRequest
bot_send(s, F, t, x) ==
    LET n == s.calls + 1
        ok == n \notin F
    IN  [s EXCEPT !.calls = n,
                  !.log = Append(@, Ev(t, IF ok THEN s.nextId ELSE 0, ok, x)),
                  !.shown = IF ok THEN @ \cup {s.nextId} ELSE @,
                  !.nextId = IF ok THEN @ + 1 ELSE @]

\* delete_message: BadRequest also when the client shows no such message
bot_delete(s, F, id) ==
    LET n == s.calls + 1
        ok == n \notin F /\ id \in s.shown
    IN  [s EXCEPT !.calls = n,
                  !.log = Append(@, Ev("delete_message", id, ok, <<>>)),
                  !.shown = IF ok THEN @ \ {id} ELSE @]

\* edit_message_text, edit_message_caption: BadRequest also when the client
\* shows no such message
bot_edit(s, F, t, id, x) ==
    LET n == s.calls + 1
        ok == n \notin F /\ id \in s.shown
    IN  [s EXCEPT !.calls = n, !.log = Append(@, Ev(t, id, ok, x))]

\* answer_callback_query, send_chat_action
bot_notify(s, F, t, x) ==
    LET n == s.calls + 1
    IN  [s EXCEPT !.calls = n, !.log = Append(@, Ev(t, 0, n \notin F, x))]

\* whether the Transport accepted the last call
Accepted(s) == Last(s.log).ok

----------------------------------------------------------------------------
(* models.py: BaseMessage *)

\* update(): the content the application renders
Content(s, m) ==
    CASE m = "Start" -> <<"Start message!">>
      [] m = "Second" -> <<"Second message">>
      [] m = "Third" -> <<"Third message">>
      [] m = "Options" -> <<"Status updated!">>
      [] OTHER -> IF s.shared_content[m] THEN <<"Action! [x]">> ELSE <<"Action!">>

\* get_updated_content(): update() of OptionsAppMessage also rebuilds the
\* keyboard, as a new list of new rows
get_updated_content(s, m) ==
    IF m = "Options"
    THEN [s EXCEPT !.keyboard[m] = OptionsKeyboard(s.play_pause),
                   !.shared_rows[m] = {}]
    ELSE s

\* the keyboard of a message
KeyboardOf(s, m) == IF m \in Apps THEN s.keyboard[m] ELSE MenuKeyboard(m)

\* get_button(label): the first button of the keyboard with that label;
\* [label |-> None] stands for Python's None
NoButton == Btn(None, None, None)

get_button(s, m, lbl) ==
    LET btns == Flatten(KeyboardOf(s, m))
        i == FirstIndex(btns, LAMBDA b : b.label = lbl)
    IN  IF i = 0 THEN NoButton ELSE btns[i]

\* is_alive()
is_alive(s, m) == [s EXCEPT !.time_alive[m] = now]

\* has_expired() as it would be if every message had expired
has_expired_always(s, m) == TRUE

\* has_expired() as it would be if no message expired
has_expired_never(s, m) == FALSE

\* has_expired()
has_expired(s, m) == s.time_alive[m] + expiry_period(m) < now

----------------------------------------------------------------------------
(* navigation.py: NavigationHandler.  Each coroutine takes the state s and   *)
(* the set F of rejected Transport calls and gives R(state, returned value). *)

\* get_message(label_message): the first tracked message with that label
\* get_message() as it would be if it gave the message tracked last when no
\* label matches
get_message_any(s, lbl) ==
    LET i == FirstIndex(s.message_queue, LAMBDA m : s.label[m] = lbl)
    IN  IF s.message_queue = <<>> THEN None
        ELSE IF i = 0 THEN Last(s.message_queue) ELSE s.message_queue[i]

get_message(s, lbl) ==
    LET i == FirstIndex(s.message_queue, LAMBDA m : s.label[m] = lbl)
    IN  IF i = 0 THEN None ELSE s.message_queue[i]

\* send_message() lets BadRequest through, send_photo() catches it and gives
\* None: the state after the send; Accepted tells which
send_content(s, F, m) ==
    LET s1 == get_updated_content(s, m)
    IN  bot_send(s1, F, IF picture(m) THEN "send_photo" ELSE "send_message",
                 Content(s1, m))

goto_menu(s, F, m) ==
    LET s1 == send_content(s, F, m)
        id == Last(s1.log).id
    IN  IF ~Accepted(s1)
        THEN R(s1, IF picture(m) THEN RetInt(-1) ELSE Raised)
        ELSE R([is_alive(s1, m) EXCEPT !.message_id[m] = id,
                                       !.menu_queue = Append(@, m)],
               RetInt(id))

\* goto_home() as it would be if it sent the popped top entry again
goto_home_top(s, F) ==
    IF s.menu_queue = <<>> THEN R(s, RetInt(-1))
    ELSE IF Len(s.menu_queue) = 1 THEN R(s, RetInt(s.message_id[s.menu_queue[1]]))
    ELSE goto_menu([s EXCEPT !.menu_queue = <<>>], F, Last(s.menu_queue))

goto_home(s, F) ==
    IF s.menu_queue = <<>> THEN R(s, RetInt(-1))
    ELSE IF Len(s.menu_queue) = 1 THEN R(s, RetInt(s.message_id[s.menu_queue[1]]))
    ELSE \* the while loop pops every entry: menu_previous is the bottom one
         goto_menu([s EXCEPT !.menu_queue = <<>>], F, s.menu_queue[1])

\* delete_message() lets BadRequest through
_delete_queued_message(s, F, m) ==
    LET s1 == [s EXCEPT !.log = Append(@, Ev("kill_message", s.message_id[m], TRUE, <<m>>))]
    IN  IF In(m, s1.message_queue)
        THEN LET s2 == bot_delete([s1 EXCEPT !.message_queue = Remove(@, m)], F,
                                  s1.message_id[m])
             IN  R(s2, IF Accepted(s2) THEN RetNone ELSE Raised)
        ELSE R(s1, RetNone)

RECURSIVE expiry_loop(_, _, _)
\* for message in self._message_queue: the iterator is at index i of the list
\* as it is now
expiry_loop(s, F, i) ==
    IF i > Len(s.message_queue) THEN R(s, RetNone)
    ELSE LET m == s.message_queue[i]
         IN  IF has_expired(s, m)
             THEN LET r == _delete_queued_message(s, F, m)
                  IN  IF r.ret = Raised THEN r ELSE expiry_loop(r.s, F, i + 1)
             ELSE expiry_loop(s, F, i + 1)

_expiry_date_checker(s, F) ==
    LET r == expiry_loop(s, F, 1)
    IN  IF r.ret = Raised THEN r
        ELSE IF Len(r.s.menu_queue) >= 2 /\ has_expired(r.s, Last(r.s.menu_queue))
        THEN LET h == goto_home(r.s, F)
             IN  R(h.s, IF h.ret = Raised THEN Raised ELSE RetNone)
        ELSE r

\* what the Transport gets of the message m: its content and the labels of
\* its buttons
Transmit(s, m) == [content |-> Content(s, m), labels |-> Labels(Flatten(s.keyboard[m]))]

\* gen_inline_keyboard_content() gives the tokens label + SEPARATOR + button
_send_app_message(s, F, m, lbl) ==
    LET s1 == get_updated_content(s, m)
        s2 == IF ~In("_", s1.label[m])
              THEN [s1 EXCEPT !.label[m] = @ \o <<"_", lbl>>]
              ELSE s1
        r3 == IF get_message(s2, s2.label[m]) # None
              THEN _delete_queued_message(s2, F, m)
              ELSE R(s2, RetNone)
        s4 == is_alive(r3.s, m)
        s5 == bot_send(s4, F, IF picture(m) THEN "send_photo" ELSE "send_message",
                       Content(s4, m))
        id == Last(s5.log).id
    IN  IF r3.ret = Raised THEN r3
        ELSE IF ~Accepted(s5)
        THEN R(s5, IF picture(m) THEN RetInt(-1) ELSE Raised)
        ELSE R([s5 EXCEPT !.message_id[m] = id,
                          !.message_queue = Append(@, m),
                          !.content_previous[m] = Content(s4, m),
                          !.keyboard_previous[m] = s5.keyboard[m],
                          !.shared_rows[m] = 1..Len(s5.keyboard[m])],
               RetInt(id))

\* _send_app_message(message, label) up to its first await of the Transport:
\* the delete of the message if it is tracked, else the send; call is what
\* it awaits
send_app_begin(s, m, lbl) ==
    LET s1 == get_updated_content(s, m)
        s2 == IF ~In("_", s1.label[m])
              THEN [s1 EXCEPT !.label[m] = @ \o <<"_", lbl>>]
              ELSE s1
        killed == [s2 EXCEPT !.log = Append(@, Ev("kill_message", s2.message_id[m], TRUE, <<m>>))]
    IN  IF get_message(s2, s2.label[m]) = None
        THEN [s |-> is_alive(s2, m), call |-> [NoCall EXCEPT !.m = m, !.at = "send"]]
        ELSE IF ~In(m, s2.message_queue)
        THEN [s |-> is_alive(killed, m), call |-> [NoCall EXCEPT !.m = m, !.at = "send"]]
        ELSE [s |-> [killed EXCEPT !.message_queue = Remove(@, m)],
              call |-> [NoCall EXCEPT !.m = m, !.at = "delete", !.id = s2.message_id[m]]]

\* _send_app_message() from the await call on, up to its next await or its
\* end: r is what it returns when it ends, call what it awaits when it does not
send_app_resume(s, F, call, goes_home) ==
    LET m == call.m
        d == bot_delete(s, F, call.id)
        s5 == bot_send(s, F, IF picture(m) THEN "send_photo" ELSE "send_message",
                       Content(s, m))
        id == Last(s5.log).id
        sent == R([s5 EXCEPT !.message_id[m] = id,
                             !.message_queue = Append(@, m),
                             !.content_previous[m] = Content(s, m),
                             !.keyboard_previous[m] = s5.keyboard[m],
                             !.shared_rows[m] = 1..Len(s5.keyboard[m])],
                  RetInt(id))
    IN  IF call.at = "delete"
        THEN IF ~Accepted(d) THEN [r |-> R(d, Raised), call |-> NoCall]
             ELSE [r |-> R(is_alive(d, m), RetNone), call |-> [call EXCEPT !.at = "send"]]
        ELSE IF ~Accepted(s5)
        THEN [r |-> R(s5, IF picture(m) THEN RetInt(-1) ELSE Raised), call |-> NoCall]
        ELSE [r |-> IF goes_home THEN goto_home(sent.s, F) ELSE sent, call |-> NoCall]

\* _expiry_date_checker() with the iterator of its loop at index i, up to its
\* next await of the Transport (the delete of an expired message) or, the loop
\* being over, to its end
sweep_from(s, F, i) ==
    LET q == s.message_queue
        at == {j \in i..Len(q) : has_expired(s, q[j])}
        j == CHOOSE k \in at : \A l \in at : k <= l
        m == q[j]
        killed == [s EXCEPT !.log = Append(@, Ev("kill_message", s.message_id[m], TRUE, <<m>>)),
                            !.message_queue = Remove(@, m)]
        h == goto_home(s, F)
    IN  IF at # {}
        THEN [r |-> R(killed, RetNone),
              call |-> [NoCall EXCEPT !.m = m, !.at = "delete", !.id = s.message_id[m], !.i = j]]
        ELSE IF Len(s.menu_queue) >= 2 /\ has_expired(s, Last(s.menu_queue))
        THEN [r |-> R(h.s, IF h.ret = Raised THEN Raised ELSE RetNone), call |-> NoCall]
        ELSE [r |-> R(s, RetNone), call |-> NoCall]

\* _expiry_date_checker() from the await call on: BadRequest ends it, else
\* the loop goes on with the next index of the list as it is now
sweep_resume(s, F, call) ==
    LET d == bot_delete(s, F, call.id)
    IN  IF ~Accepted(d) THEN [r |-> R(d, Raised), call |-> NoCall]
        ELSE sweep_from(d, F, call.i + 1)

\* _message_check_changes(message, content): whether something changed, and
\* the state with the snapshots it takes then
content_identical(s, m) == Content(s, m) = s.content_previous[m]

keyboard_identical(s, m) ==
    Labels(Flatten(s.keyboard_previous[m])) = Labels(Flatten(s.keyboard[m]))

\* _message_check_changes() as it would be without the comparison
_message_check_changes_always(s, m) ==
    R([s EXCEPT !.content_previous[m] = Content(s, m),
                !.keyboard_previous[m] = s.keyboard[m],
                !.shared_rows[m] = 1..Len(s.keyboard[m])],
      RetBool(TRUE))

_message_check_changes(s, m) ==
    IF content_identical(s, m) /\ keyboard_identical(s, m)
    THEN R(s, RetBool(FALSE))
    ELSE \* keyboard.copy(): a new list of the same rows
         R([s EXCEPT !.content_previous[m] = Content(s, m),
                     !.keyboard_previous[m] = s.keyboard[m],
                     !.shared_rows[m] = 1..Len(s.keyboard[m])],
           RetBool(TRUE))

\* edit_message() as it would be if it returned True for an edit that the
\* Transport rejects
edit_message_issued(s, F, m) ==
    LET message_updt == get_message(s, s.label[m])
        s1 == get_updated_content(s, message_updt)
        c == _message_check_changes(s1, message_updt)
        s2 == bot_edit(c.s, F,
                       IF picture(message_updt) THEN "edit_message_caption"
                                                ELSE "edit_message_text",
                       c.s.message_id[message_updt], Content(c.s, message_updt))
    IN  IF message_updt = None THEN R(s, RetBool(FALSE))
        ELSE IF c.ret = RetBool(FALSE) THEN R(c.s, RetBool(FALSE))
        ELSE R(s2, RetBool(TRUE))

edit_message(s, F, m) ==
    LET message_updt == get_message(s, s.label[m])
        s1 == get_updated_content(s, message_updt)
        c == _message_check_changes(s1, message_updt)
        s2 == bot_edit(c.s, F,
                       IF picture(message_updt) THEN "edit_message_caption"
                                                ELSE "edit_message_text",
                       c.s.message_id[message_updt], Content(c.s, message_updt))
    IN  IF message_updt = None THEN R(s, RetBool(FALSE))
        ELSE IF c.ret = RetBool(FALSE) THEN R(c.s, RetBool(FALSE))
        ELSE R(s2, RetBool(Accepted(s2)))

\* capture_user_input(label): the text goes to the tracked message that was
\* alive last; menu_queue[-1] of an empty stack is an IndexError
capture_user_input(s, F, lbl) ==
    LET n == Len(s.message_queue)
        \* for last_app_message in self._message_queue[::-1]
        Pick[i \in 0..n] ==
            IF i = 0 THEN Last(s.menu_queue)
            ELSE LET a == s.message_queue[n - i + 1]
                 IN  IF s.time_alive[a] > s.time_alive[Pick[i - 1]] THEN a
                     ELSE Pick[i - 1]
    IN  IF s.menu_queue = <<>> THEN R(s, Raised)
        ELSE R([s EXCEPT !.log = Append(@, Ev("text_input", 0, TRUE, <<Pick[n], lbl>>))],
               RetNone)

\* the search of the stack as it would be from the bottom up
menu_with_button_bottom(s, lbl) ==
    LET n == Len(s.menu_queue)
        Has(i) == get_button(s, s.menu_queue[i], lbl) # NoButton
    IN  IF \E i \in 1..n : Has(i)
        THEN s.menu_queue[CHOOSE i \in 1..n : Has(i) /\ \A j \in 1..(i - 1) : ~Has(j)]
        ELSE None

\* for menu_item in self._menu_queue[::-1]: the entry closest to the top that
\* has a button with that label, None if there is none
menu_with_button(s, lbl) ==
    LET n == Len(s.menu_queue)
        Has(i) == get_button(s, s.menu_queue[i], lbl) # NoButton
    IN  IF \E i \in 1..n : Has(i)
        THEN s.menu_queue[CHOOSE i \in 1..n : Has(i) /\ \A j \in (i + 1)..n : ~Has(j)]
        ELSE None

\* select_menu_button("Back") as it would be without the check of the depth
select_menu_button_back_always(s, F) ==
    LET n == Len(s.menu_queue)
    IN  IF n = 0 THEN R(s, Raised)
        ELSE goto_menu([s EXCEPT !.menu_queue = SubSeq(@, 1, n - 2)], F,
                       s.menu_queue[IF n = 1 THEN 1 ELSE n - 1])

\* select_menu_button("Back") as it would be if it popped the actual menu only
select_menu_button_back_once(s, F) ==
    LET n == Len(s.menu_queue)
    IN  IF n = 1 THEN R(s, RetInt(s.message_id[s.menu_queue[1]]))
        ELSE IF n = 0 THEN R(s, Raised)
        ELSE goto_menu([s EXCEPT !.menu_queue = SubSeq(@, 1, n - 1)], F,
                       s.menu_queue[n - 1])

\* select_menu_button("Back") as it would be if it went two levels up from
\* depth 3 and more
select_menu_button_back_two(s, F) ==
    LET n == Len(s.menu_queue)
    IN  IF n = 1 THEN R(s, RetInt(s.message_id[s.menu_queue[1]]))
        ELSE IF n = 0 THEN R(s, Raised)
        ELSE IF n = 2 THEN goto_menu([s EXCEPT !.menu_queue = <<>>], F, s.menu_queue[1])
        ELSE goto_menu([s EXCEPT !.menu_queue = SubSeq(@, 1, n - 3)], F,
                       s.menu_queue[n - 2])

\* select_menu_button(label) for the label "Back"
select_menu_button_back(s, F) ==
    LET n == Len(s.menu_queue)
    IN  IF n = 1 THEN R(s, RetInt(s.message_id[s.menu_queue[1]]))
        ELSE IF n = 0 THEN R(s, Raised)  \* pop from an empty list: IndexError
        ELSE \* pop the actual menu, pop the one before and send it again
             goto_menu([s EXCEPT !.menu_queue = SubSeq(@, 1, n - 2)], F,
                       s.menu_queue[n - 1])

\* call_function_EAFP(btn.callback, context) for the handler h of a menu
\* button.  goto_back takes no context: the call with it is a TypeError
\* before the handler runs, the call without it runs select_menu_button("Back").
\* webapp_cb takes the context for its data: json.loads() of it is a TypeError
\* in the handler, and the call without it a TypeError that nothing catches
call_menu_handler(s, F, h) ==
    LET s1 == [s EXCEPT !.log = Append(@, Ev("callback", 0, TRUE, <<h>>))]
    IN  IF h = "goto_back" THEN select_menu_button_back(s1, F)
        ELSE R(s1, Raised)

select_menu_button(s, F, lbl) ==
    LET menu_item == menu_with_button(s, lbl)
        btn == get_button(s, menu_item, lbl)
        sent == _send_app_message(s, F, btn.callback, lbl)
        home == goto_home(sent.s, F)
        called == call_menu_handler(s, F, btn.callback)
    IN  IF lbl = "Back" THEN select_menu_button_back(s, F)
        ELSE IF lbl = "Home" THEN goto_home(s, F)
        ELSE IF menu_item = None THEN capture_user_input(s, F, lbl)
        ELSE IF btn.callback \in Apps
        THEN IF sent.ret = Raised \/ ~home_after(btn.callback) THEN sent ELSE home
        ELSE IF btn.callback \in Menus THEN goto_menu(s, F, btn.callback)
        ELSE IF btn.callback \in MenuHandlers
        THEN R(called.s, IF called.ret = Raised THEN Raised ELSE RetInt(0))
        ELSE R(s, RetInt(0))

----------------------------------------------------------------------------
(* The poll *)

NoPoll == [id |-> 0, options |-> <<>>]

\* poll_delete(): BadRequest is caught
poll_delete(s, F) ==
    IF s.poll # NoPoll THEN bot_delete(s, F, s.poll.id) ELSE s

\* send_poll(question, options): send_poll() of the bot lets BadRequest through
send_poll(s, F, options) ==
    LET s1 == IF s.poll_job THEN poll_delete(s, F) ELSE s
        s2 == bot_send(s1, F, "send_poll", options)
        id == Last(s2.log).id
    IN  IF ~Accepted(s2) THEN R(s2, Raised)
        ELSE R([s2 EXCEPT !.poll = [id |-> id, options |-> options],
                          !.polls = @ \cup {id},
                          !.poll_job = TRUE],
               RetNone)

\* poll_answer() as it would be if it kept the poll it has answered
poll_answer_keep(s, F, answer_id) ==
    IF s.poll = NoPoll \/ s.poll_callback = None THEN R(s, RetNone)
    ELSE LET text == s.poll.options[answer_id + 1]
             s1 == [s EXCEPT !.log = Append(@, Ev("callback", s.poll.id, TRUE,
                                                  <<s.poll_callback, text>>))]
             s2 == poll_delete(s1, F)
         IN  R([s2 EXCEPT !.poll_job = FALSE], RetNone)

\* poll_answer(answer_id): the callback gets the text of the option of the
\* stored poll
poll_answer(s, F, answer_id) ==
    IF s.poll = NoPoll \/ s.poll_callback = None THEN R(s, RetNone)
    ELSE LET text == s.poll.options[answer_id + 1]
             s1 == [s EXCEPT !.log = Append(@, Ev("callback", s.poll.id, TRUE,
                                                  <<s.poll_callback, text>>))]
             s2 == poll_delete(s1, F)
         IN  R([s2 EXCEPT !.poll_job = FALSE, !.poll = NoPoll], RetNone)

\* poll_answer(answer_id) up to its await of asyncio.sleep(1): the callback
\* has been called, the job and the poll are as they were
poll_answer_await(s, answer_id) ==
    LET text == s.poll.options[answer_id + 1]
    IN  R([s EXCEPT !.log = Append(@, Ev("callback", s.poll.id, TRUE,
                                         <<s.poll_callback, text>>))],
          RetNone)

\* poll_answer() from that await on: poll_delete(), then the job is removed if
\* the scheduler still holds it, and the poll is forgotten
poll_answer_resume(s, F) ==
    R([poll_delete(s, F) EXCEPT !.poll_job = FALSE, !.poll = NoPoll], RetNone)

----------------------------------------------------------------------------
(* Inline buttons *)

\* BaseMessage.SEPARATOR, two characters
SEPARATOR == <<"#", "#">>

\* sub in str
Contains(str, sub) ==
    \E i \in 1..(Len(str) - Len(sub) + 1) : SubSeq(str, i, i + Len(sub) - 1) = sub

RECURSIVE split(_)
\* str.split(SEPARATOR): the parts between the occurrences of the separator,
\* found from the left and not overlapping
split(tok) ==
    LET n == Len(SEPARATOR)
        at == {i \in 1..(Len(tok) - n + 1) : SubSeq(tok, i, i + n - 1) = SEPARATOR}
        i == CHOOSE j \in at : \A k \in at : j <= k
    IN  IF at = {} THEN <<tok>>
        ELSE <<SubSeq(tok, 1, i - 1)>> \o split(SubSeq(tok, i + n, Len(tok)))

\* the token gen_inline_keyboard_content() gives a button whose label is the
\* one character b
Token(lbl, b) == lbl \o SEPARATOR \o <<b>>

\* add_button() as it would be if a full row took one more button
add_button_unbounded(msg, lbl, new_row) ==
    LET kb == IF msg.keyboard = <<>> THEN << <<>> >> ELSE msg.keyboard
        btn == Btn(lbl, None, "NOTIFICATION")
    IN  [msg EXCEPT !.keyboard =
            IF new_row THEN Append(kb, <<btn>>)
            ELSE [kb EXCEPT ![Len(kb)] = Append(@, btn)]]

\* add_button(label, new_row=new_row) of the message msg: the button goes to a
\* new row when asked or when the last row is full
add_button(msg, lbl, new_row) ==
    LET buttons_per_row == IF msg.inlined THEN 4 ELSE 2
        kb == IF msg.keyboard = <<>> THEN << <<>> >> ELSE msg.keyboard
        btn == Btn(lbl, None, "NOTIFICATION")
    IN  [msg EXCEPT !.keyboard =
            IF new_row \/ Len(Last(kb)) = buttons_per_row
            THEN Append(kb, <<btn>>)
            ELSE [kb EXCEPT ![Len(kb)] = Append(@, btn)]]

\* gen_inline_keyboard_content() of the message msg: ValueError at a button
\* when the label of the message or of the button holds the separator, else
\* the callback_data of the buttons, row after row
gen_inline_keyboard_content(msg) ==
    LET btns == Flatten(msg.keyboard)
    IN  IF \E i \in 1..Len(btns) :
              Contains(msg.label, SEPARATOR) \/ Contains(btns[i].label, SEPARATOR)
        THEN [ret |-> Raised, tokens |-> <<>>]
        ELSE [ret |-> RetNone,
              tokens |-> [i \in 1..Len(btns) |-> msg.label \o SEPARATOR \o btns[i].label]]

\* gen_keyboard_content() of the message msg: the rows of the reply keyboard,
\* each the texts of its buttons
gen_keyboard_content(msg) ==
    [i \in 1..Len(msg.keyboard) |-> Labels(msg.keyboard[i])]

\* the rows of the markup gen_inline_keyboard_content() returns, each the
\* callback_data of its buttons
inline_keyboard(msg) ==
    [i \in 1..Len(msg.keyboard) |->
        [j \in 1..Len(msg.keyboard[i]) |->
            msg.label \o SEPARATOR \o msg.keyboard[i][j].label]]

\* the head of app_message_button_callback(callback_label), msg being the
\* message that is tracked: the split is unpacked into two (ValueError
\* otherwise), then the message is looked up by its label and the button by
\* its label; what it resolves to is logged
callback_lookup(msg, tok) ==
    LET parts == split(tok)
        btns == Flatten(msg.keyboard)
        found == {i \in 1..Len(btns) : btns[i].label = parts[2]}
        i == CHOOSE j \in found : \A k \in found : j <= k
    IN  IF Len(parts) # 2 THEN [ret |-> Raised, log |-> <<>>]
        ELSE IF parts[1] # msg.label \/ found = {} THEN [ret |-> RetNone, log |-> <<>>]
        ELSE [ret |-> RetNone,
              log |-> <<Ev("resolved", 0, TRUE, <<msg.label, btns[i].label>>)>>]

\* message.add_button(lbl, new_row=new_row) on the application message m of the
\* session: a button appended to the last row is appended to the list object
\* of that row, which keyboard_previous holds too if the row is shared
app_add_button(s, m, lbl, new_row) ==
    LET msg == [label |-> s.label[m], inlined |-> inlined(m), keyboard |-> s.keyboard[m]]
        kb == add_button(msg, lbl, new_row).keyboard
        i == Len(kb)
        in_place == Len(kb) = Len(s.keyboard[m])
    IN  [s EXCEPT !.keyboard[m] = kb,
                  !.keyboard_previous[m] =
                      IF in_place /\ i \in s.shared_rows[m]
                      THEN [@ EXCEPT ![i] = kb[i]] ELSE @]

\* message.keyboard[i][j].label = lbl: the button is one object, which the
\* row of keyboard_previous holds too if the row is shared
app_relabel(s, m, i, j, lbl) ==
    [s EXCEPT !.keyboard[m][i][j].label = lbl,
              !.keyboard_previous[m] =
                  IF i \in s.shared_rows[m]
                  THEN [@ EXCEPT ![i][j].label = lbl] ELSE @]

\* the ways the application changes a message it has sent: the content it
\* renders (for OptionsAppMessage update() then rebuilds the keyboard with
\* another label), a button added to the last row, a button added to a new
\* row, the first button relabelled
Changes(s, m) ==
    IF m = "Options" THEN {"content"}
    ELSE {"content"}
         \cup (IF Len(Flatten(s.keyboard[m])) < MaxButtons
               THEN {"add_button", "add_row"} ELSE {})
         \cup (IF s.keyboard[m][1] # <<>> THEN {"relabel"} ELSE {})

app_change(s, m, change) ==
    CASE change = "content" /\ m = "Options" -> [s EXCEPT !.play_pause = ~@]
      [] change = "content" /\ m # "Options" -> [s EXCEPT !.shared_content[m] = ~@]
      [] change = "add_button" -> app_add_button(s, m, "x", FALSE)
      [] change = "add_row" -> app_add_button(s, m, "x", TRUE)
      [] change = "relabel" ->
            app_relabel(s, m, 1, 1, IF s.keyboard[m][1][1].label = "x" THEN "y" ELSE "x")

\* call_handler() as it would be if the handler ran at both calls of
\* call_function_EAFP
call_handler_twice(s, h) ==
    [s EXCEPT !.log = @ \o <<Ev("callback", 0, TRUE, <<h>>),
                             Ev("callback", 0, TRUE, <<h>>)>>]

\* call_function_EAFP(btn.callback, context): the handlers of
\* OptionsAppMessage take no context, so the call with the context is a
\* TypeError before the handler runs and the call without it runs the handler:
\* it toggles play_pause and returns a text
call_handler(s, h) ==
    [s EXCEPT !.play_pause = ~@,
              !.log = Append(@, Ev("callback", 0, TRUE, <<h>>))]

handler_result(h) ==
    IF h = "action_button" THEN <<"option selected!">> ELSE <<"stats_default.webp">>

\* app_message_button_callback() as it would be without the return that ends
\* the case of the poll button
app_message_button_callback_no_return(s, F, tok) ==
    LET parts == split(tok)
        message == get_message(s, parts[1])
        btn == get_button(s, message, parts[2][1])
        \* btype PICTURE or STICKER
        s1 == bot_notify(s, F, "send_chat_action", <<"UPLOAD_PHOTO">>)
        s2 == call_handler(s1, btn.callback)
        s3 == bot_send(s2, F, "send_sticker", handler_result(btn.callback))
        s4 == bot_notify(s3, F, "answer_callback_query", <<"Sticker sent!">>)
        \* btype POLL
        p1 == send_poll(s, F, ButtonPollOptions)
        p2 == [p1.s EXCEPT !.poll_callback = btn.callback]
        p3 == bot_notify(p2, F, "answer_callback_query", <<"Select an answer...">>)
        \* btype NOTIFICATION
        n1 == call_handler(s, btn.callback)
        n2 == bot_notify(n1, F, "answer_callback_query", handler_result(btn.callback))
        n3 == edit_message(is_alive(n2, message), F, message)
    IN  IF Len(parts) # 2 THEN R(s, Raised)
        ELSE IF message = None THEN R(s, RetNone)
        ELSE IF Len(parts[2]) # 1 \/ btn = NoButton THEN R(s, RetNone)
        ELSE IF btn.btype = "STICKER"
        THEN IF ~Accepted(s1) THEN R(s1, Raised)
             ELSE IF btn.callback \notin Handlers THEN R(s1, RetNone)
             ELSE R(s4, IF Accepted(s4) THEN RetNone ELSE Raised)
        ELSE IF btn.btype = "POLL"
        THEN IF p1.ret = Raised THEN p1
             ELSE IF ~Accepted(p3) THEN R(p3, Raised)
             ELSE LET q1 == call_handler(p3, btn.callback)
                      q2 == bot_notify(q1, F, "answer_callback_query", <<>>)
                  IN  IF ~Accepted(q2) THEN R(q2, Raised)
                      ELSE R(edit_message(is_alive(q2, message), F, message).s, RetNone)
        ELSE IF btn.callback \notin Handlers THEN R(s, RetNone)
        ELSE IF ~Accepted(n2) THEN R(n2, Raised)
        ELSE R(n3.s, RetNone)

\* app_message_button_callback(callback_label, callback_id)
app_message_button_callback(s, F, tok) ==
    LET parts == split(tok)
        message == get_message(s, parts[1])
        btn == get_button(s, message, parts[2][1])
        \* btype PICTURE or STICKER
        s1 == bot_notify(s, F, "send_chat_action", <<"UPLOAD_PHOTO">>)
        s2 == call_handler(s1, btn.callback)
        s3 == bot_send(s2, F, "send_sticker", handler_result(btn.callback))
        s4 == bot_notify(s3, F, "answer_callback_query", <<"Sticker sent!">>)
        \* btype POLL
        p1 == send_poll(s, F, ButtonPollOptions)
        p2 == [p1.s EXCEPT !.poll_callback = btn.callback]
        p3 == bot_notify(p2, F, "answer_callback_query", <<"Select an answer...">>)
        \* btype NOTIFICATION
        n1 == call_handler(s, btn.callback)
        n2 == bot_notify(n1, F, "answer_callback_query", handler_result(btn.callback))
        n3 == edit_message(is_alive(n2, message), F, message)
    IN  IF Len(parts) # 2 THEN R(s, Raised)
        ELSE IF message = None THEN R(s, RetNone)
        ELSE IF Len(parts[2]) # 1 \/ btn = NoButton THEN R(s, RetNone)
        ELSE IF btn.btype = "STICKER"
        THEN IF ~Accepted(s1) THEN R(s1, Raised)
             ELSE IF btn.callback \notin Handlers THEN R(s1, RetNone)
             ELSE R(s4, IF Accepted(s4) THEN RetNone ELSE Raised)
        ELSE IF btn.btype = "POLL"
        THEN IF p1.ret = Raised THEN p1
             ELSE R(p3, IF Accepted(p3) THEN RetNone ELSE Raised)
        ELSE IF btn.callback \notin Handlers THEN R(s, RetNone)
        ELSE IF ~Accepted(n2) THEN R(n2, Raised)
        ELSE R(n3.s, RetNone)

----------------------------------------------------------------------------
(* The state machine *)

TypeOK ==
    /\ menu_queue \in Seq(Menus)
    /\ message_queue \in Seq(Apps)
    /\ message_id \in [Messages -> -1..MaxId]
    /\ time_alive \in [Messages -> 0..MaxTime]
    /\ shown \subseteq 1..MaxId
    /\ nextId \in 1..(MaxId + 1)
    /\ now \in 0..MaxTime
    /\ poll.id \in 0..MaxId
    /\ poll_callback \in Handlers \cup {None}
    /\ poll_job \in BOOLEAN

\* no coroutine is suspended
NoStep == [by |-> None, menu |-> None]

\* the application constructs no message
NoDraft == [label |-> <<>>, inlined |-> FALSE, keyboard |-> <<>>]

\* a session that has not started
InitSession ==
    /\ suspended = NoStep
    /\ sessions = <<>>
    /\ jobs = {}
    /\ session_polls = <<>>
    /\ menu_queue = <<>>
    /\ message_queue = <<>>
    /\ label = [m \in Apps |-> InitLabel(m)]
    /\ message_id = [m \in Messages |-> -1]
    /\ time_alive = [m \in Messages |-> 0]
    /\ keyboard = [m \in Apps |-> << <<>> >>]
    /\ content_previous = [m \in Apps |-> <<>>]
    /\ keyboard_previous = [m \in Apps |-> << <<>> >>]
    /\ shared_rows = [m \in Apps |-> {}]
    /\ play_pause = TRUE
    /\ shared_content = [m \in Apps \ {"Options"} |-> FALSE]
    /\ poll = NoPoll
    /\ poll_callback = None
    /\ poll_job = FALSE
    /\ shown = {}
    /\ nextId = 1
    /\ now = 0
    /\ started = FALSE
    /\ root = None
    /\ polls = {}
    /\ bound = 0
    /\ superseded = {}
    /\ ret = RetNone
    /\ log = <<>>

\* the classes the configuration names, and the bases of each
Classes == {"StartMessage", "MenuButton", "NavigationHandler", "MyNavigationHandler"}

Bases(c) ==
    CASE c = "StartMessage" -> {"StartMessage", "BaseMessage"}
      [] c = "MyNavigationHandler" -> {"MyNavigationHandler", "NavigationHandler"}
      [] OTHER -> {c}

issubclass_any(c, base) == TRUE

issubclass(c, base) == base \in Bases(c)

\* the values given as start_message_args: None, a list, an int
StartArgs == {None, "list", "int"}

\* TelegramMenuSession.__init__: no configuration, nothing runs
NoSetup ==
    [start_message_class |-> None, start_message_args |-> None,
     navigation_handler_class |-> None, running |-> FALSE, polling |-> FALSE]

\* TelegramMenuSession.start(start_message_class, start_message_args, polling,
\* navigation_handler_class): the session manager it leaves and what it returns
start(su, smc, sma, pol, nhc) ==
    LET a == [su EXCEPT !.start_message_class = smc,
                        !.start_message_args = sma,
                        !.navigation_handler_class =
                            IF nhc = None THEN "NavigationHandler" ELSE nhc]
    IN  IF ~issubclass(smc, "BaseMessage")
        THEN [setup |-> a, ret |-> NavigationException]
        ELSE IF sma # None /\ sma # "list"
        THEN [setup |-> a, ret |-> NavigationException]
        ELSE IF ~issubclass(a.navigation_handler_class, "NavigationHandler")
        THEN [setup |-> a, ret |-> NavigationException]
        ELSE [setup |-> [a EXCEPT !.running = TRUE, !.polling = pol], ret |-> RetNone]

\* the session manager of src/tests/test_connection.py once start() has run
\* (test_connection.py 286)
Started == start(NoSetup, "StartMessage", "list", TRUE, "MyNavigationHandler").setup

Init ==
    /\ InitSession
    /\ setup = Started
    /\ draft = NoDraft
    /\ op = [name |-> "init", arg |-> <<>>, n |-> 0]

\* the sets of Transport calls of one operation that may be rejected: none, or
\* one of the first MaxCalls
Rejections == {{}} \cup {{i} : i \in 1..MaxCalls}

\* the conversation of the session that is modelled with its menus and messages
ThisChat == 1

\* the id of the job that runs the sweep of the session of index i
SweepJobId(i) == "state_nav_update"

\* scheduler.add_job(job, id=id, replace_existing=True), job being a method of
\* the session of index i
add_job(js, id, i) == {j \in js : j.id # id} \cup {[id |-> id, session |-> i]}

\* self.sessions.append(NavigationHandler(bot, chat, scheduler)), chat being
\* the conversation c: the registry and the jobs that follow
new_session(c) ==
    [sessions |-> Append(sessions, c),
     jobs |-> add_job(jobs, SweepJobId(Len(sessions) + 1), Len(sessions) + 1)]

\* the operation name(arg, n) ran and gave r; susp is the coroutine that is
\* left suspended; the operation of a session that has not started is the
\* start command, which creates the session
CommitStep(r, name, arg, n, susp) ==
    /\ r.s.nextId <= MaxId + 1
    /\ suspended' = susp
    /\ sessions' = IF ~started THEN new_session(ThisChat).sessions ELSE sessions
    /\ jobs' = IF ~started THEN new_session(ThisChat).jobs ELSE jobs
    /\ menu_queue' = r.s.menu_queue
    /\ message_queue' = r.s.message_queue
    /\ label' = r.s.label
    /\ message_id' = r.s.message_id
    /\ time_alive' = r.s.time_alive
    /\ keyboard' = r.s.keyboard
    /\ content_previous' = r.s.content_previous
    /\ keyboard_previous' = r.s.keyboard_previous
    /\ shared_rows' = r.s.shared_rows
    /\ play_pause' = r.s.play_pause
    /\ shared_content' = r.s.shared_content
    /\ poll' = r.s.poll
    /\ poll_callback' = r.s.poll_callback
    /\ poll_job' = r.s.poll_job
    /\ shown' = r.s.shown
    /\ nextId' = r.s.nextId
    /\ polls' = r.s.polls
    /\ bound' = IF name = "app_message_button_callback" /\ r.s.polls # polls
                THEN r.s.poll.id ELSE bound
    /\ superseded' = IF r.s.polls # polls /\ poll_job /\ poll # NoPoll
                     THEN superseded \cup {poll.id} ELSE superseded
    /\ root' = IF root = None /\ r.s.menu_queue # <<>> THEN r.s.menu_queue[1] ELSE root
    /\ op' = [name |-> name, arg |-> arg, n |-> n]
    /\ ret' = r.ret
    /\ log' = r.s.log
    /\ UNCHANGED <<now, draft, setup, session_polls>>

\* the operation name(arg, n) ran from its call to its return and gave r
Commit(r, name, arg, n) == CommitStep(r, name, arg, n, suspended)

\* a handler and a sweep of the session, each running or not, await the
\* Transport in _send_app_message() and _delete_queued_message(): h and w are
\* the call each awaits (the message, "delete" or "send", the id to delete, the
\* position of the iterator of the sweep)
Flight(h, w) ==
    IF h = NoCall /\ w = NoCall THEN NoStep
    ELSE [by |-> "flight", menu |-> None, handler |-> h, sweep |-> w]

HandlerCall == IF suspended.by = "flight" THEN suspended.handler ELSE NoCall

SweepCall == IF suspended.by = "flight" THEN suspended.sweep ELSE NoCall

\* the Application handles the updates one after the other
\* (concurrent_updates is not set): no handler of an update starts while
\* another one is suspended
NoHandlerSuspended == suspended.by # "handler" /\ HandlerCall = NoCall

\* the scheduler runs one instance of a job at a time (max_instances is 1)
NoSweepSuspended == suspended.by # "sweep" /\ SweepCall = NoCall

\* TelegramMenuSession._send_start_message: the session is created and the
\* start message is its first menu
SendStartMessage ==
    /\ setup.polling
    /\ ~started
    /\ NoHandlerSuspended
    /\ started' = TRUE
    /\ \E F \in Rejections : Commit(goto_menu(Cur, F, "Start"), "goto_menu", <<"Start">>, 0)

\* the texts the user sends: the labels of the menu buttons and a free text
Texts == {"Back", "Home", "Action", "Second menu", "Third menu", "Option", "hello"}

\* TelegramMenuSession._button_select_callback, the user sending a text of T
SelectMenuButton(T) ==
    /\ started
    /\ NoHandlerSuspended
    /\ \E lbl \in T, F \in Rejections :
          Commit(select_menu_button(Cur, F, lbl), "select_menu_button", <<lbl>>, 0)
    /\ UNCHANGED started

\* the application calls goto_home()
GotoHome ==
    /\ started
    /\ suspended = NoStep
    /\ \E F \in Rejections : Commit(goto_home(Cur, F), "goto_home", <<>>, 0)
    /\ UNCHANGED started

\* the application calls edit_message() of a message
EditMessage ==
    /\ started
    /\ \E m \in Apps, F \in Rejections :
          Commit(edit_message(Cur, F, m), "edit_message", <<m>>, 0)
    /\ UNCHANGED started

\* the application changes a message it has sent and edits it (as
\* OptionsAppMessage.app_update_display does)
UpdateAndEdit ==
    /\ started
    /\ \E m \in {"Options", "ActionA"}, F \in Rejections :
          /\ In(m, message_queue)
          /\ \E change \in Changes(Cur, m) :
                Commit(edit_message(app_change(Cur, m, change), F, m),
                       "update_and_edit", <<m, change>>, 0)
    /\ UNCHANGED started

\* the scheduler runs the job state_nav_update
ExpiryDateChecker ==
    /\ started
    /\ NoSweepSuspended
    /\ \E F \in Rejections :
          Commit(_expiry_date_checker(Cur, F), "_expiry_date_checker", <<>>, 0)
    /\ UNCHANGED started

\* a run of the job in which the Transport rejects nothing
ExpiryDateCheckerAccepted ==
    /\ started
    /\ NoSweepSuspended
    /\ \E r \in {_expiry_date_checker(Cur, {})} :
          Commit(r, "_expiry_date_checker", <<>>, 0)
    /\ UNCHANGED started

\* the tokens of inline buttons the client sends: of the buttons B of the
\* tracked messages, and of a message that is not tracked
Tokens(B) ==
    {Token(label[m], b) : m \in {a \in Apps : In(a, message_queue)}, b \in B}
    \cup {Token(<<"gone">>, "act")}

InlineButtons == {"play", "pause", "act", "poll"}

\* TelegramMenuSession._button_inline_select_callback, the user pressing a
\* button of B
AppMessageButtonCallback(B) ==
    /\ started
    /\ NoHandlerSuspended
    /\ \E tok \in Tokens(B), F \in Rejections :
          Commit(app_message_button_callback(Cur, F, tok),
                 "app_message_button_callback", tok, 0)
    /\ UNCHANGED started

\* callback data that is not a token of a button: the label of a tracked
\* message without a separator, and a token followed by a second separator
\* and more (empty data does not reach the session)
MalformedTokens ==
    LET tracked == {label[m] : m \in {a \in Apps : In(a, message_queue)}}
    IN  tracked \cup {Token(l, "act") \o SEPARATOR \o <<"act">> : l \in tracked}

\* TelegramMenuSession._button_inline_select_callback, the client sending
\* callback data that is not a token
MalformedCallback ==
    /\ started
    /\ NoHandlerSuspended
    /\ \E tok \in MalformedTokens, F \in Rejections :
          Commit(app_message_button_callback(Cur, F, tok),
                 "app_message_button_callback", tok, 0)
    /\ UNCHANGED started

\* the application calls send_poll()
SendPoll ==
    /\ started
    /\ \E o \in PollOptions \ {ButtonPollOptions}, F \in Rejections :
          Commit(send_poll(Cur, F, o), "send_poll", o, 0)
    /\ UNCHANGED started

\* TelegramMenuSession._poll_answer
PollAnswer ==
    /\ started
    /\ NoHandlerSuspended
    /\ \E i \in 0..1, F \in Rejections :
          Commit(poll_answer(Cur, F, i), "poll_answer", <<>>, i)
    /\ UNCHANGED started

\* the scheduler runs the one-shot job poll_name: poll_delete()
PollDeadline ==
    /\ poll_job
    /\ \E F \in Rejections :
          Commit(R([poll_delete(Cur, F) EXCEPT !.poll_job = FALSE], RetNone),
                 "poll_delete", <<>>, 0)
    /\ UNCHANGED started

\* the user selects a button of T that leads to an application message:
\* _send_app_message() runs up to its first await
SendAppBegin(T) ==
    /\ started
    /\ suspended.by \in {None, "flight"}
    /\ HandlerCall = NoCall
    /\ \E lbl \in T :
          LET menu_item == menu_with_button(Cur, lbl)
              btn == get_button(Cur, menu_item, lbl)
              b == send_app_begin(Cur, btn.callback, lbl)
          IN  /\ menu_item # None
              /\ btn.callback \in Apps
              /\ CommitStep(R(b.s, RetNone), "_send_app_message_await", <<lbl>>, 0,
                            Flight(b.call, SweepCall))
    /\ UNCHANGED started

\* the Transport answers the handler: _send_app_message() runs to its next
\* await or to its end, and select_menu_button() goes home after it if the
\* message asks for it
SendAppResume ==
    /\ HandlerCall # NoCall
    /\ \E F \in Rejections :
          LET x == send_app_resume(Cur, F, HandlerCall, home_after(HandlerCall.m))
          IN  CommitStep(x.r,
                         IF x.call = NoCall THEN "_send_app_message_resume"
                         ELSE "_send_app_message_await",
                         <<HandlerCall.m>>, 0, Flight(x.call, SweepCall))
    /\ UNCHANGED started

\* the scheduler runs the job state_nav_update: the sweep runs up to its first
\* await, or to its end if nothing has expired
SweepBegin ==
    /\ started
    /\ suspended.by \in {None, "flight"}
    /\ SweepCall = NoCall
    /\ \E F \in Rejections :
          LET x == sweep_from(Cur, F, 1)
          IN  CommitStep(x.r,
                         IF x.call = NoCall THEN "_expiry_date_checker"
                         ELSE "_expiry_date_checker_await",
                         <<>>, 0, Flight(HandlerCall, x.call))
    /\ UNCHANGED started

\* the Transport answers the sweep, which runs to its next await or to its end
SweepResume ==
    /\ SweepCall # NoCall
    /\ \E F \in Rejections :
          LET x == sweep_resume(Cur, F, SweepCall)
          IN  CommitStep(x.r,
                         IF x.call = NoCall THEN "_expiry_date_checker_resume"
                         ELSE "_expiry_date_checker_await",
                         <<>>, 0, Flight(HandlerCall, x.call))
    /\ UNCHANGED started

\* poll_answer() is suspended in its sleep, after the callback
PollAnswerStep == [by |-> "handler", menu |-> None]

\* TelegramMenuSession._poll_answer: poll_answer() of a poll that has a
\* callback runs up to its await; the scheduler may run its jobs meanwhile
PollAnswerSuspend ==
    /\ started
    /\ suspended = NoStep
    /\ poll # NoPoll /\ poll_callback # None
    /\ \E i \in 0..1 :
          CommitStep(poll_answer_await(Cur, i), "poll_answer_await", <<>>, i, PollAnswerStep)
    /\ UNCHANGED started

\* the sleep is over and poll_answer() runs to its end
PollAnswerResume ==
    /\ suspended = PollAnswerStep
    /\ \E F \in Rejections :
          CommitStep(poll_answer_resume(Cur, F), "poll_answer_resume", <<>>, 0, NoStep)
    /\ UNCHANGED started

\* the application changes what a tracked message renders
AppChange ==
    /\ started
    /\ \/ /\ In("Options", message_queue)
          /\ play_pause' = ~play_pause
          /\ UNCHANGED shared_content
       \/ \E m \in DOMAIN shared_content :
             /\ In(m, message_queue)
             /\ shared_content' = [shared_content EXCEPT ![m] = ~@]
             /\ UNCHANGED play_pause
    /\ op' = [name |-> "app", arg |-> <<>>, n |-> 0]
    /\ ret' = RetNone
    /\ log' = <<>>
    /\ UNCHANGED <<menu_queue, message_queue, label, message_id, time_alive, keyboard,
                   content_previous, keyboard_previous, poll, poll_callback, poll_job,
                   shown, nextId, now, started, suspended, draft, sessions, jobs,
                   setup, shared_rows, session_polls, root, polls, bound, superseded>>

\* time passes
Tick ==
    /\ now < MaxTime
    /\ now' = now + 1
    /\ op' = [name |-> "tick", arg |-> <<>>, n |-> 0]
    /\ ret' = RetNone
    /\ log' = <<>>
    /\ UNCHANGED <<menu_queue, message_queue, label, message_id, time_alive, keyboard,
                   content_previous, keyboard_previous, play_pause, shared_content,
                   poll, poll_callback, poll_job, shown, nextId, started, suspended,
                   draft, sessions, jobs, setup, shared_rows, session_polls, root, polls, bound, superseded>>

\* the user selects "Home" and goto_home() runs up to its await: the stack of
\* depth 2 or more is popped empty and goto_menu(root) awaits the Transport
SelectHomeSuspend ==
    /\ started
    /\ suspended = NoStep
    /\ Len(menu_queue) >= 2
    /\ CommitStep(R([Cur EXCEPT !.menu_queue = <<>>], RetNone),
                  "goto_home_await", <<"Home">>, 0,
                  [by |-> "handler", menu |-> menu_queue[1]])
    /\ UNCHANGED started

\* the scheduler runs the job state_nav_update, no application message has
\* expired and the sub-menu on top has: its goto_home() runs up to its await
SweepHomeSuspend ==
    /\ started
    /\ suspended = NoStep
    /\ \A i \in 1..Len(message_queue) : ~has_expired(Cur, message_queue[i])
    /\ Len(menu_queue) >= 2 /\ has_expired(Cur, Last(menu_queue))
    /\ CommitStep(R([Cur EXCEPT !.menu_queue = <<>>], RetNone),
                  "goto_home_await", <<"sweep">>, 0,
                  [by |-> "sweep", menu |-> menu_queue[1]])
    /\ UNCHANGED started

\* the Transport answers and the suspended goto_home() runs to its end
GotoHomeResume ==
    /\ suspended # NoStep
    /\ suspended.menu # None
    /\ \E F \in Rejections :
          CommitStep(goto_menu(Cur, F, suspended.menu), "goto_home_resume",
                     <<suspended.by>>, 0, NoStep)
    /\ UNCHANGED started

\* the characters of the labels
Characters == {"a", "#"}

\* the labels the application gives to messages and buttons
LabelStrings == UNION {[1..k -> Characters] : k \in 0..MaxLen}

\* the session and the Transport, which the construction of a message leaves alone
session ==
    <<menu_queue, message_queue, label, message_id, time_alive, keyboard,
      content_previous, keyboard_previous, play_pause, shared_content, poll,
      poll_callback, poll_job, shown, nextId, now, started, suspended, sessions,
      jobs, setup, shared_rows, session_polls, root, polls, bound, superseded>>

\* TelegramMenuSession.get_session(chat_id): the index of the first session of
\* the conversation c, 0 for None
get_session(c) ==
    LET at == {i \in 1..Len(sessions) : sessions[i] = c}
    IN  IF at = {} THEN 0 ELSE CHOOSE i \in at : \A j \in at : i <= j

Chats == 1..MaxChats

\* what an update of the registry leaves alone: the menus and messages of the
\* session that is modelled, and the message under construction
registry_frame ==
    <<menu_queue, message_queue, label, message_id, time_alive, keyboard,
      content_previous, keyboard_previous, play_pause, shared_content, poll,
      poll_callback, poll_job, shown, nextId, now, started, suspended, draft,
      setup, shared_rows, session_polls, root, polls, bound, superseded>>

\* _send_start_message(update, context) for the conversation c, as far as the
\* registry and the scheduler go: a session is created and appended
send_start_message(c, name) ==
    /\ setup.polling
    /\ Len(sessions) < MaxSessions
    /\ sessions' = new_session(c).sessions
    /\ jobs' = new_session(c).jobs
    /\ op' = [name |-> name, arg |-> <<c>>, n |-> Len(sessions) + 1]
    /\ ret' = RetNone
    /\ log' = <<>>
    /\ UNCHANGED registry_frame

\* the start command comes from a conversation
StartCommand ==
    \E c \in Chats : send_start_message(c, "_send_start_message")

\* _button_select_callback, _button_inline_select_callback: a text or the
\* press of an inline button comes from a conversation; its session handles
\* it, and one is created if it has none
UpdateCallback ==
    \E c \in Chats, name \in {"_button_select_callback", "_button_inline_select_callback"} :
        IF get_session(c) = 0 THEN send_start_message(c, name)
        ELSE /\ setup.polling
             /\ op' = [name |-> name, arg |-> <<c>>, n |-> get_session(c)]
             /\ ret' = RetNone
             /\ log' = <<>>
             /\ UNCHANGED <<sessions, jobs, registry_frame>>

\* what the program broadcasts: a text, the path of a picture and one of a
\* file that is none, the path of a sticker (test_connection.py 350-370, 427)
Payloads(kind) ==
    CASE kind = "message" -> {"Broadcast message"}
      [] kind = "picture" -> {"packages.png", "setup.py"}
      [] kind = "sticker" -> {"stats_default.webp"}

_picture_check_replace(path) ==
    IF path = "packages.png" THEN path ELSE "resources/stats_default.png"

_sticker_check_replace(path) ==
    IF path = "stats_default.webp" THEN path ELSE "resources/stats_default.webp"

\* send_message, send_photo, send_sticker of the session of index i; Fs are
\* the sessions whose conversation rejects the send with BadRequest.  What
\* is returned: the message (named by its session), None, or the exception;
\* ev is the Transport call
session_send(kind, i, Fs, x) ==
    LET ok == i \notin Fs
        msg == [k |-> "message", v |-> i]
    IN  CASE kind = "message" ->
               [ret |-> IF ok THEN msg ELSE Raised,
                ev |-> Ev("send_message", i, ok, <<x>>)]
          [] kind = "picture" ->
               [ret |-> IF ok THEN msg ELSE RetNone,
                ev |-> Ev("send_photo", i, ok, <<_picture_check_replace(x)>>)]
          [] kind = "sticker" ->
               [ret |-> IF ok THEN msg ELSE RetNone,
                ev |-> Ev("send_sticker", i, ok, <<_sticker_check_replace(x)>>)]

RECURSIVE broadcast(_, _, _, _, _, _)
\* broadcast_message, broadcast_picture, broadcast_sticker from the session of
\* index i on: messages are those collected so far, l the Transport calls
broadcast(kind, x, Fs, i, messages, l) ==
    IF i > Len(sessions) THEN [ret |-> [k |-> "list", v |-> messages], log |-> l]
    ELSE LET r == session_send(kind, i, Fs, x)
         IN  IF r.ret = Raised THEN [ret |-> Raised, log |-> Append(l, r.ev)]
             ELSE broadcast(kind, x, Fs, i + 1,
                            IF r.ret # RetNone THEN Append(messages, r.ret.v) ELSE messages,
                            Append(l, r.ev))

\* the program broadcasts a text, a picture or a sticker; no conversation,
\* or one of them, rejects the send
Broadcast ==
    \E kind \in {"message", "picture", "sticker"},
       Fs \in {{}} \cup {{i} : i \in 1..Len(sessions)} :
      \E x \in Payloads(kind) :
        LET r == broadcast(kind, x, Fs, 1, <<>>, <<>>)
        IN  /\ setup.running
            /\ op' = [name |-> "broadcast_" \o kind, arg |-> <<x>>, n |-> 0]
            /\ ret' = r.ret
            /\ log' = r.log
            /\ UNCHANGED <<sessions, jobs, registry_frame>>

\* the scheduler runs an interval job: the sweep of the session it was added for
SweepJob ==
    \E j \in jobs :
        /\ setup.running
        /\ op' = [name |-> "_expiry_date_checker", arg |-> <<j.id>>, n |-> j.session]
        /\ ret' = RetNone
        /\ log' = <<>>
        /\ UNCHANGED <<sessions, jobs, registry_frame>>

\* a message with no button: StartMessage (a menu) or ActionAppMessage
\* (inlined), its keyboard as the constructor leaves it or emptied as the
\* tests do (msg_test.keyboard = [])
InitGrid ==
    /\ InitSession
    /\ setup = Started
    /\ draft \in {[label |-> <<"a">>, inlined |-> i, keyboard |-> kb] :
                      i \in BOOLEAN, kb \in {<<>>, << <<>> >>}}
    /\ op = [name |-> "BaseMessage", arg |-> <<>>, n |-> 0]

\* the application adds a button to the keyboard
AddGridButton ==
    /\ Len(Flatten(draft.keyboard)) < MaxGrid
    /\ \E c \in Characters, new_row \in BOOLEAN :
          /\ draft' = add_button(draft, <<c>>, new_row)
          /\ op' = [name |-> "add_button", arg |-> <<c>>, n |-> IF new_row THEN 1 ELSE 0]
    /\ ret' = RetNone
    /\ log' = <<>>
    /\ UNCHANGED session

\* the message is rendered: gen_inline_keyboard_content() if it is inlined,
\* gen_keyboard_content() if not; the log gets the rows of the markup
GenKeyboard ==
    /\ LET rows == IF draft.inlined THEN inline_keyboard(draft)
                   ELSE gen_keyboard_content(draft)
       IN  log' = [i \in 1..Len(rows) |-> Ev("row", i, TRUE, rows[i])]
    /\ ret' = IF draft.inlined THEN gen_inline_keyboard_content(draft).ret ELSE RetNone
    /\ op' = [name |-> IF draft.inlined THEN "gen_inline_keyboard_content"
                       ELSE "gen_keyboard_content",
              arg |-> <<>>, n |-> 0]
    /\ UNCHANGED <<draft, session>>

\* the program calls start(): the configuration is checked, then the scheduler
\* and polling are started; run_polling() returns when the application stops,
\* so that start() is not called again while polling runs
Start ==
    /\ ~setup.polling
    /\ \E smc \in Classes, sma \in StartArgs, pol \in BOOLEAN, nhc \in Classes \cup {None} :
          LET r == start(setup, smc, sma, pol, nhc)
          IN  /\ setup' = r.setup
              /\ ret' = r.ret
              /\ op' = [name |-> "start", arg |-> <<smc, sma, nhc>>, n |-> IF pol THEN 1 ELSE 0]
    /\ log' = <<>>
    /\ UNCHANGED <<menu_queue, message_queue, label, message_id, time_alive, keyboard,
                   content_previous, keyboard_previous, play_pause, shared_content,
                   poll, poll_callback, poll_job, shown, nextId, now, started,
                   suspended, draft, sessions, jobs, shared_rows, session_polls, root, polls,
                   bound, superseded>>

\* TelegramMenuSession.__init__(api_key)
InitSetup ==
    /\ InitSession
    /\ setup = NoSetup
    /\ draft = NoDraft
    /\ op = [name |-> "TelegramMenuSession", arg |-> <<>>, n |-> 0]

\* BaseMessage.__init__(navigation, label, inlined=inlined)
InitDraft ==
    /\ InitSession
    /\ setup = Started
    /\ draft \in {[label |-> l, inlined |-> i, keyboard |-> << <<>> >>] :
                      l \in LabelStrings, i \in BOOLEAN}
    /\ op = [name |-> "BaseMessage", arg |-> <<>>, n |-> 0]

\* the application adds a button to the message
AddButton ==
    /\ draft # NoDraft
    /\ Len(Flatten(draft.keyboard)) < MaxButtons
    /\ \E lbl \in LabelStrings, new_row \in BOOLEAN :
          /\ draft' = add_button(draft, lbl, new_row)
          /\ op' = [name |-> "add_button", arg |-> <<lbl>>, n |-> 0]
    /\ ret' = RetNone
    /\ log' = <<>>
    /\ UNCHANGED session

\* the message is sent: its inline keyboard is generated
GenInlineKeyboardContent ==
    /\ draft # NoDraft
    /\ LET g == gen_inline_keyboard_content(draft)
       IN  /\ ret' = g.ret
           /\ log' = [i \in 1..Len(g.tokens) |-> Ev("callback_data", 0, TRUE, g.tokens[i])]
    /\ op' = [name |-> "gen_inline_keyboard_content", arg |-> <<>>, n |-> 0]
    /\ UNCHANGED <<draft, session>>

\* the user presses button i of the message that was sent: its callback_data
\* comes back
CallbackData ==
    /\ draft # NoDraft
    /\ LET g == gen_inline_keyboard_content(draft)
       IN  \E i \in 1..Len(g.tokens) :
              LET r == callback_lookup(draft, g.tokens[i])
              IN  /\ op' = [name |-> "callback_lookup", arg |-> g.tokens[i], n |-> i]
                  /\ ret' = r.ret
                  /\ log' = r.log
    /\ UNCHANGED <<draft, session>>

Next ==
    \/ Start
    \/ UpdateAndEdit
    \/ Broadcast
    \/ StartCommand
    \/ UpdateCallback
    \/ SweepJob
    \/ SelectHomeSuspend
    \/ SweepHomeSuspend
    \/ GotoHomeResume
    \/ SendStartMessage
    \/ SelectMenuButton(Texts)
    \/ GotoHome
    \/ EditMessage
    \/ ExpiryDateChecker
    \/ AppMessageButtonCallback(InlineButtons)
    \/ MalformedCallback
    \/ SendPoll
    \/ PollAnswer
    \/ PollDeadline
    \/ PollAnswerSuspend
    \/ PollAnswerResume
    \/ SendAppBegin({"Action", "Option"})
    \/ SendAppResume
    \/ SweepBegin
    \/ SweepResume
    \/ AppChange
    \/ Tick

Spec == Init /\ [][Next]_vars

\* the menu stack: the user walks the three menus and opens the two "action"
\* messages
NextNavigation ==
    \/ SendStartMessage
    \/ SelectMenuButton(Texts \ {"Option"})
    \/ GotoHome

SpecNavigation == Init /\ [][NextNavigation]_vars

\* the way back: the user walks down the menus and back while time passes
NextBack ==
    \/ SendStartMessage
    \/ SelectMenuButton({"Second menu", "Third menu", "Back"})
    \/ Tick

SpecBack == Init /\ [][NextBack]_vars

\* the expiry of application messages: the user opens them from the start
\* menu, time passes and the scheduler sweeps
NextExpiry ==
    \/ SendStartMessage
    \/ SelectMenuButton({"Action", "Option"})
    \/ ExpiryDateChecker
    \/ Tick

SpecExpiry == Init /\ [][NextExpiry]_vars

\* the same, the scheduler running the interval job again and again: a run
\* that the Transport does not disturb comes again as long as it has work
SpecExpiryFair == SpecExpiry /\ WF_vars(ExpiryDateCheckerAccepted)

\* the edition of application messages: the user opens them from the start
\* menu, the application changes what they render and edits them
NextEdit ==
    \/ SendStartMessage
    \/ SelectMenuButton({"Option", "Action"})
    \/ EditMessage
    \/ AppChange

SpecEdit == Init /\ [][NextEdit]_vars

\* the sweep of a session with sub-menus: the user walks down the menus and
\* opens the "options" message, time passes and the scheduler sweeps
NextSweep ==
    \/ SendStartMessage
    \/ SelectMenuButton({"Second menu", "Third menu", "Option"})
    \/ ExpiryDateChecker
    \/ Tick

SpecSweep == Init /\ [][NextSweep]_vars

\* the sweep and the refresh: the user opens application messages and presses
\* the notification button of the "options" message, which refreshes it;
\* time passes and the scheduler sweeps
NextRefresh ==
    \/ SendStartMessage
    \/ SelectMenuButton({"Action", "Option"})
    \/ AppMessageButtonCallback({"act"})
    \/ ExpiryDateChecker
    \/ Tick

SpecRefresh == Init /\ [][NextRefresh]_vars

\* the change-diff: the user opens application messages from the start menu,
\* the application changes them, in their content or their keyboard, and
\* edits them
NextDiff ==
    \/ SendStartMessage
    \/ SelectMenuButton({"Option", "Action"})
    \/ UpdateAndEdit

SpecDiff == Init /\ [][NextDiff]_vars

\* the button without an action: the user opens the "action" message, the
\* application adds a button without a callback to it or relabels it, and the
\* user presses that button
NextNoAction ==
    \/ SendStartMessage
    \/ SelectMenuButton({"Action"})
    \/ UpdateAndEdit
    \/ AppMessageButtonCallback({"x", "y"})
    \/ Tick

SpecNoAction == Init /\ [][NextNoAction]_vars

\* the poll: the user opens the "options" message and presses its poll button,
\* polls are sent, answered and timed out
NextPoll ==
    \/ SendStartMessage
    \/ SelectMenuButton({"Option"})
    \/ AppMessageButtonCallback({"poll"})
    \/ SendPoll
    \/ PollAnswer
    \/ PollDeadline

SpecPoll == Init /\ [][NextPoll]_vars

\* the poll button: the user opens the "options" message and presses its poll
\* button while time passes; the polls are answered or time out
NextPollButton ==
    \/ SendStartMessage
    \/ SelectMenuButton({"Option"})
    \/ AppMessageButtonCallback({"poll"})
    \/ PollAnswer
    \/ PollDeadline
    \/ Tick

SpecPollButton == Init /\ [][NextPollButton]_vars

\* the answer and the deadline: the user presses the poll button and answers
\* the poll; poll_answer() sleeps between the callback and the delete, and the
\* scheduler runs the deadline job when it is due, also during that sleep
NextPollRace ==
    \/ SendStartMessage
    \/ SelectMenuButton({"Option"})
    \/ AppMessageButtonCallback({"poll"})
    \/ PollAnswerSuspend
    \/ PollAnswerResume
    \/ PollDeadline

SpecPollRace == Init /\ [][NextPollRace]_vars

\* the inline buttons: the user opens the "options" message and presses its
\* sticker and notification buttons, or sends the token of a button that is
\* not there or callback data that is no token, while time passes
NextInline ==
    \/ SendStartMessage
    \/ SelectMenuButton({"Option"})
    \/ AppMessageButtonCallback({"play", "pause", "act", "nope"})
    \/ MalformedCallback
    \/ Tick

SpecInline == Init /\ [][NextInline]_vars

\* the coroutines of one session on the event loop: the user walks the menus,
\* time passes, the scheduler sweeps, and a goto_home() of either is suspended
\* in its send while the other runs
NextConcurrent ==
    \/ SendStartMessage
    \/ SelectMenuButton({"Second menu", "Third menu", "Back"})
    \/ SelectHomeSuspend
    \/ SweepHomeSuspend
    \/ GotoHomeResume
    \/ ExpiryDateChecker
    \/ Tick

SpecConcurrent == Init /\ [][NextConcurrent]_vars

\* the application messages under interleaving: the user opens the "action"
\* and "options" messages again and again while time passes and the scheduler
\* sweeps; each Transport call of the handler and of the sweep is a step of
\* its own, and the other coroutine runs between them
NextOrphan ==
    \/ SendStartMessage
    \/ SendAppBegin({"Action", "Option"})
    \/ SendAppResume
    \/ SweepBegin
    \/ SweepResume
    \/ Tick

SpecOrphan == Init /\ [][NextOrphan]_vars

\* the labels: the application constructs a message with any label and any
\* buttons, its inline keyboard is generated and its buttons are pressed
NextLabels ==
    \/ AddButton
    \/ GenInlineKeyboardContent
    \/ CallbackData

SpecLabels == InitDraft /\ [][NextLabels]_vars

\* the registry: start commands, texts and presses come from the
\* conversations, and the scheduler runs its jobs
NextRegistry ==
    \/ Broadcast
    \/ StartCommand
    \/ UpdateCallback
    \/ SweepJob

SpecRegistry == Init /\ [][NextRegistry]_vars

\* the keyboard of a message: buttons are added, the markup is generated
NextGrid ==
    \/ AddGridButton
    \/ GenKeyboard

SpecGrid == InitGrid /\ [][NextGrid]_vars

\* the setup: start() is called with a configuration, then the updates come
NextSetup ==
    \/ Start
    \/ StartCommand
    \/ UpdateCallback
    \/ SweepJob

SpecSetup == InitSetup /\ [][NextSetup]_vars

----------------------------------------------------------------------------
(* What the log of an operation holds *)

SendCalls == {"send_message", "send_photo", "send_sticker", "send_poll"}

EditCalls == {"edit_message_text", "edit_message_caption"}

TransportCalls ==
    SendCalls \cup EditCalls
    \cup {"delete_message", "answer_callback_query", "send_chat_action"}

\* the calls of the log l whose name is in T
Calls(l, T) == SelectSeq(l, LAMBDA e : e.t \in T)

\* the Transport accepted every call of the log l
AllAccepted(l) == \A i \in 1..Len(l) : l[i].ok

----------------------------------------------------------------------------
(* The claims *)

\* C1: once the root menu has been pushed, the menu stack is never empty and
\* its bottom entry is that root, whenever no operation is in progress, also
\* after a Transport send has failed.
C1_RootNeverRemoved ==
    root # None => (menu_queue # <<>> /\ menu_queue[1] = root)

\* C2: of two successive edit_message(M) calls with nothing changed between
\* them, at most one issues a Transport edit, and the second returns false
\* without any Transport call.
C2_IdempotentEdit ==
    [][(op.name = "edit_message" /\ op'.name = "edit_message" /\ op'.arg = op.arg)
          => /\ ret' = RetBool(FALSE)
             /\ Calls(log', TransportCalls) = <<>>
             /\ Len(Calls(log, EditCalls)) + Len(Calls(log', EditCalls)) <= 1]_vars

\* C2, its case: an edit_message of a tracked message has returned false
\* without a Transport call, the snapshots being those of what it renders.
C2_Witness ==
    /\ op.name = "edit_message"
    /\ In(op.arg[1], message_queue)
    /\ ret = RetBool(FALSE)
    /\ log = <<>>
    /\ content_identical(Cur, op.arg[1]) /\ keyboard_identical(Cur, op.arg[1])
    /\ \/ op.arg[1] = "Options" /\ ~play_pause
       \/ op.arg[1] = "ActionA" /\ shared_content["ActionA"]

\* C3: the snapshots content_previous and keyboard_previous change only after
\* a successful transmit: an edit_message whose Transport edit is rejected
\* leaves both as they were.
C3_SnapshotsKeptOnRejection ==
    [][(/\ op'.name = "edit_message"
        /\ Calls(log', EditCalls) # <<>>
        /\ ~AllAccepted(log'))
          => /\ content_previous' = content_previous
             /\ keyboard_previous' = keyboard_previous]_vars

\* C4: no two tracked application messages ever share a label.
C4_LabelsUnique ==
    \A i, j \in 1..Len(message_queue) :
        i # j => label[message_queue[i]] # label[message_queue[j]]

\* C5: when a run of the expiry sweep completes, its Transport deletes having
\* succeeded, every application message that was tracked and expired when it
\* started is no longer tracked and was deleted exactly once (here: also when
\* no two tracked messages share a label).
C5_SweepEvictsAllExpired ==
    [][(/\ op'.name = "_expiry_date_checker"
        /\ ret' # Raised
        /\ AllAccepted(log')
        /\ C4_LabelsUnique)
          => \A i \in 1..Len(message_queue) :
                LET m == message_queue[i]
                IN  has_expired(Cur, m)
                      => /\ ~In(m, message_queue')
                         /\ Len(SelectSeq(log', LAMBDA e :
                                  e.t = "delete_message" /\ e.id = message_id[m])) = 1]_vars

\* goto_home(), called by the application or by the button "Home"
IsGotoHome(o) ==
    o.name = "goto_home" \/ (o.name = "select_menu_button" /\ o.arg = <<"Home">>)

\* C6: from any depth >= 1, goto_home with its re-send succeeding leaves the
\* stack at depth 1 holding the root; a second goto_home right after it makes
\* no Transport call, leaves the stack as it is and returns the same id.
C6_HomeCollapse ==
    [][/\ (IsGotoHome(op') /\ menu_queue # <<>> /\ AllAccepted(log'))
            => /\ menu_queue' = <<menu_queue[1]>>
               /\ ret' = RetInt(message_id'[menu_queue[1]])
       /\ (/\ IsGotoHome(op) /\ IsGotoHome(op')
           /\ menu_queue # <<>> /\ ret = RetInt(message_id[menu_queue[1]]))
            => /\ log' = <<>>
               /\ menu_queue' = menu_queue
               /\ ret' = ret]_vars

\* C6, its case: goto_home has collapsed a deeper stack to the root, sent again.
C6_Witness ==
    /\ IsGotoHome(op)
    /\ menu_queue = <<"Start">>
    /\ Len(log) = 1 /\ log[1].t = "send_message" /\ log[1].ok
    /\ ret = RetInt(log[1].id)
    /\ message_id["Second"] # -1

IsBack(o) == o.name = "select_menu_button" /\ o.arg = <<"Back">>

\* C7: select_menu_button("Back") at depth 1 returns the root's id, sends
\* nothing and leaves the stack, the application messages and the timestamps
\* as they are.
C7_BackAtRoot ==
    [][(IsBack(op') /\ Len(menu_queue) = 1)
          => /\ ret' = RetInt(message_id[menu_queue[1]])
             /\ log' = <<>>
             /\ UNCHANGED <<menu_queue, message_queue, time_alive, message_id, shown>>]_vars

\* C7, its case: "Back" has been selected at the root and has sent nothing.
C7_Witness ==
    /\ IsBack(op)
    /\ menu_queue = <<"Start">>
    /\ log = <<>>
    /\ ret = RetInt(message_id["Start"])

\* C8: from the root alone, a button that leads to a menu gives depth 2; a
\* "Back" that follows, its send succeeding, gives depth 1 with the root on
\* top, by exactly one Transport send, whose id it returns.
C8_BackFromSecond ==
    [][/\ (/\ Len(menu_queue) = 1
           /\ op'.name = "select_menu_button" /\ op'.arg = <<"Second menu">>
           /\ AllAccepted(log'))
            => menu_queue' = <<menu_queue[1], "Second">>
       /\ (/\ op.name = "select_menu_button" /\ op.arg = <<"Second menu">>
           /\ Len(menu_queue) = 2 /\ ret = RetInt(message_id[menu_queue[2]])
           /\ IsBack(op') /\ AllAccepted(log'))
            => /\ menu_queue[2] = "Second"
               /\ menu_queue' = <<menu_queue[1]>>
               /\ Len(log') = 1 /\ log'[1].t \in SendCalls
               /\ ret' = RetInt(log'[1].id)
               /\ message_id'[menu_queue[1]] = log'[1].id]_vars

\* C8, its case: "Back" has been selected at depth 2 and has sent the root again.
C8_Witness ==
    /\ IsBack(op)
    /\ menu_queue = <<"Start">>
    /\ Len(log) = 1 /\ log[1].t = "send_message" /\ log[1].ok
    /\ ret = RetInt(log[1].id)
    /\ message_id["Second"] # -1

\* send_poll(), called by the application or by the poll button
IsSendPoll(o) ==
    o.name = "send_poll"
    \/ (o.name = "app_message_button_callback" /\ Last(o.arg) = "poll")

\* C9: a poll started while another awaits its answer first deletes the
\* message of that poll, then sends the new one, so that one poll message (the
\* Transport accepting the delete) and one job are left; and the callback
\* bound for the poll that was replaced is not called from then on.
C9_PollExclusive ==
    [][/\ (IsSendPoll(op') /\ poll_job /\ poll # NoPoll /\ polls' # polls)
            => /\ log'[1].t = "delete_message" /\ log'[1].id = poll.id
               /\ log'[2].t = "send_poll"
               /\ log'[1].ok => poll.id \notin shown'
               /\ (log'[1].ok /\ shown \cap polls \subseteq {poll.id})
                     => shown' \cap polls' = {poll'.id}
               /\ poll_job'
       /\ op'.name = "poll_answer"
            => (Calls(log', {"callback"}) # <<>> => bound \notin superseded)]_vars

\* C10: poll_answer(i) of a poll that awaits its answer, a callback being
\* bound, calls the callback once with the text of option i, deletes the poll
\* message and leaves no poll and no job; a further poll_answer calls nothing.
C10_PollAnswer ==
    [][/\ (op'.name = "poll_answer" /\ poll_job /\ poll # NoPoll /\ poll_callback # None)
            => /\ Calls(log', {"callback"})
                    = <<Ev("callback", poll.id, TRUE,
                           <<poll_callback, poll.options[op'.n + 1]>>)>>
               /\ Len(Calls(log', {"delete_message"})) = 1
               /\ \A i \in 1..Len(log') :
                     log'[i].t = "delete_message"
                       => log'[i].id = poll.id /\ (log'[i].ok => poll.id \notin shown')
               /\ poll' = NoPoll
               /\ ~poll_job'
       /\ (/\ op.name = "poll_answer" /\ Calls(log, {"callback"}) # <<>>
           /\ op'.name = "poll_answer")
            => Calls(log', {"callback"}) = <<>>]_vars

\* C10, its case: a poll has been answered, its callback called with "B" and
\* its message deleted.
C10_Witness ==
    /\ op.name = "poll_answer" /\ op.n = 1
    /\ Len(log) = 2
    /\ log[1].t = "callback" /\ log[1].x = <<"action_poll", "B">>
    /\ log[2].t = "delete_message" /\ log[2].ok
    /\ poll = NoPoll
    /\ ~poll_job

C12_Serialized ==
    [][(suspended # NoStep /\ op'.name # "tick") => op'.name = "goto_home_resume"]_vars

\* the menu a step hands to goto_menu() and nothing else: the start message,
\* or the target of a menu button that is on the stack; None for other steps
GotoMenuTarget(o) ==
    IF o.name = "goto_menu" THEN o.arg[1]
    ELSE IF o.name = "select_menu_button" /\ o.arg[1] \in {"Second menu", "Third menu"}
            /\ menu_with_button(Cur, o.arg[1]) # None
    THEN get_button(Cur, menu_with_button(Cur, o.arg[1]), o.arg[1]).callback
    ELSE None

\* C13: goto_menu(menu) whose send is accepted marks the menu alive, gives it
\* the id of the send, pushes it once and returns the id; goto_menu(menu)
\* whose send is rejected, of a text menu as of a picture menu, returns -1
\* and leaves the stack and the ids as they are.
C13_GotoMenu ==
    [][LET m == GotoMenuTarget(op')
       IN  m # None
            => /\ Len(log') = 1 /\ log'[1].t \in SendCalls
               /\ log'[1].ok
                    => /\ menu_queue' = Append(menu_queue, m)
                       /\ message_id' = [message_id EXCEPT ![m] = log'[1].id]
                       /\ time_alive'[m] = now
                       /\ ret' = RetInt(log'[1].id)
               /\ ~log'[1].ok
                    => /\ ret' = RetInt(-1)
                       /\ menu_queue' = menu_queue
                       /\ message_id' = message_id]_vars

\* the step selects the button "Action" of a menu on the stack: its target is
\* an "action" message, which has home_after
IsSelectAction(o) ==
    /\ o.name = "select_menu_button" /\ o.arg = <<"Action">>
    /\ menu_with_button(Cur, "Action") # None

C15_AddButtonValidates ==
    [][op'.name = "add_button"
         => LET lbl == op'.arg[1]
                before == Flatten(draft.keyboard)
                after == Flatten(draft'.keyboard)
            IN  IF Contains(lbl, SEPARATOR)
                THEN ret' = Raised /\ draft' = draft
                ELSE /\ ret' = RetNone
                     /\ Len(after) = Len(before) + 1
                     /\ SubSeq(after, 1, Len(before)) = before
                     /\ Last(after).label = lbl]_vars

\* C16: gen_inline_keyboard_content of a message with buttons raises when the
\* label of the message or of a button holds the separator; otherwise it gives
\* each button the token label + separator + button label, which splits in
\* two at the separator, and a token that comes back resolves to that message
\* and that button.
C16_TokenRoundTrip ==
    [][/\ (op'.name = "gen_inline_keyboard_content" /\ Flatten(draft.keyboard) # <<>>)
            => LET btns == Flatten(draft.keyboard)
               IN  IF \/ Contains(draft.label, SEPARATOR)
                      \/ \E i \in 1..Len(btns) : Contains(btns[i].label, SEPARATOR)
                   THEN ret' = Raised /\ log' = <<>>
                   ELSE /\ ret' = RetNone
                        /\ Len(log') = Len(btns)
                        /\ \A i \in 1..Len(btns) :
                              /\ log'[i].x = draft.label \o SEPARATOR \o btns[i].label
                              /\ Len(split(log'[i].x)) = 2
       /\ op'.name = "callback_lookup"
            => /\ ret' = RetNone
               /\ log' = <<Ev("resolved", 0, TRUE,
                              <<draft.label, Flatten(draft.keyboard)[op'.n].label>>)>>]_vars

\* C17: callback data without a separator, or with more than one, is ignored:
\* app_message_button_callback returns without raising, calls no handler and
\* nothing of the Transport, and leaves the session as it is.
C17_MalformedIgnored ==
    [][(op'.name = "app_message_button_callback" /\ Len(split(op'.arg)) # 2)
          => /\ ret' = RetNone
             /\ log' = <<>>
             /\ UNCHANGED session]_vars

\* the labels of the tracked messages, and of the buttons of the message
\* tracked under the label lbl
TrackedLabels == {label[message_queue[i]] : i \in 1..Len(message_queue)}

ButtonLabels(lbl) ==
    LET btns == Flatten(KeyboardOf(Cur, get_message(Cur, lbl)))
    IN  {<<btns[i].label>> : i \in 1..Len(btns)}

\* C18: a token in two parts whose message label is that of no tracked
\* message, or whose button label is that of no button of the message: no
\* handler is called, nothing of the Transport is, and the session is left as
\* it is, the time_alive of every message included.
C18_LookupMiss ==
    [][(/\ op'.name = "app_message_button_callback"
        /\ Len(split(op'.arg)) = 2
        /\ \/ split(op'.arg)[1] \notin TrackedLabels
           \/ split(op'.arg)[2] \notin ButtonLabels(split(op'.arg)[1]))
          => /\ ret' = RetNone
             /\ log' = <<>>
             /\ UNCHANGED session]_vars

\* C18, its case: with the options message tracked, the token of a message
\* that is not tracked has come and nothing was done.
C18_Witness ==
    /\ op.name = "app_message_button_callback"
    /\ op.arg = Token(<<"gone">>, "act")
    /\ In("Options", message_queue)
    /\ now >= 1
    /\ ret = RetNone
    /\ log = <<>>

\* C19: the registry holds one session per conversation at most: no two
\* sessions have the same chat_id, whatever start commands, texts and presses
\* have come.
C19_OneSessionPerChat ==
    \A i, j \in 1..Len(sessions) : i # j => sessions[i] # sessions[j]

\* C20: the sweep of every session stays scheduled: creating a session takes
\* the job of no other session away.
C20_EverySessionSwept ==
    \A i \in 1..Len(sessions) : \E j \in jobs : j.session = i

\* the configuration given to start() is valid
ValidConfiguration(smc, sma, nhc) ==
    /\ "BaseMessage" \in Bases(smc)
    /\ sma \in {None, "list"}
    /\ nhc = None \/ "NavigationHandler" \in Bases(nhc)

\* C21: start() called with a start_message_class that is no BaseMessage, with
\* start_message_args that is neither None nor a list, or with a
\* navigation_handler_class that is no NavigationHandler, raises
\* NavigationException and starts neither the scheduler nor polling; and a
\* session is only created while polling runs, which a valid configuration
\* started.
C21_InvalidConfiguration ==
    [][/\ (op'.name = "start"
           /\ ~ValidConfiguration(op'.arg[1], op'.arg[2], op'.arg[3]))
          => /\ ret' = NavigationException
             /\ setup'.running = setup.running
             /\ setup'.polling = setup.polling
             /\ sessions' = sessions
             /\ jobs' = jobs
       /\ sessions' # sessions
          => /\ setup.polling
             /\ ValidConfiguration(setup.start_message_class,
                                   setup.start_message_args,
                                   setup.navigation_handler_class)]_vars

\* C21, witness: start() has raised for a navigation_handler_class that is no
\* NavigationHandler, the message class and the arguments being valid, and
\* nothing runs
C21_Witness ==
    /\ op.name = "start"
    /\ op.arg = <<"StartMessage", "list", "MenuButton">>
    /\ ret = NavigationException
    /\ ~setup.running
    /\ ~setup.polling

\* the lengths of the rows
RowLengths(rows) == [i \in 1..Len(rows) |-> Len(rows[i])]

\* the grid of n >= 1 buttons, k to a row: n \div k full rows, then one of n % k
Grid(n, k) ==
    [i \in 1..((n + k - 1) \div k) |-> IF i <= n \div k THEN k ELSE n % k]

\* the keyboard is the grid of its buttons (it is empty if it has none)
IsGrid(msg) ==
    LET n == Len(Flatten(msg.keyboard))
    IN  IF n = 0 THEN msg.keyboard \in {<<>>, << <<>> >>}
        ELSE RowLengths(msg.keyboard) = Grid(n, IF msg.inlined THEN 4 ELSE 2)

\* C22: add_button without new_row keeps the keyboard the grid of its buttons,
\* k to a row (2 for a menu, 4 for an inlined message), the new button last;
\* the keyboard is empty at first, so n such calls give n \div k full rows
\* and one of n % k buttons if n % k > 0.  The markup generated has a row of
\* the same length for each row of the keyboard, and no row exceeds k.
C22_KeyboardGrid ==
    [][/\ (op'.name = "add_button" /\ op'.n = 0 /\ IsGrid(draft))
          => /\ IsGrid(draft')
             /\ Labels(Flatten(draft'.keyboard))
                    = Append(Labels(Flatten(draft.keyboard)), op'.arg)
       /\ op'.name \in {"gen_keyboard_content", "gen_inline_keyboard_content"}
          => /\ ret' = RetNone
             /\ [i \in 1..Len(log') |-> Len(log'[i].x)] = RowLengths(draft.keyboard)
             /\ \A i \in 1..Len(log') :
                   Len(log'[i].x) <= IF draft.inlined THEN 4 ELSE 2]_vars

\* C22, witness: five buttons were added to an inlined message, none with
\* new_row, and the markup generated has a row of 4 and a row of 1
C22_Witness ==
    /\ op.name = "gen_inline_keyboard_content"
    /\ draft.inlined
    /\ IsGrid(draft)
    /\ Len(log) = 2
    /\ Len(log[1].x) = 4
    /\ Len(log[2].x) = 1

\* the operation is a broadcast
IsBroadcast(o) == o.name \in {"broadcast_message", "broadcast_picture", "broadcast_sticker"}

\* C23: a broadcast attempts one send per session of the registry, in the
\* order of the registry, whether sends before it failed or not, and returns
\* the list of the messages of the sends that succeeded; the picture sent for a
\* path that is no picture is the default one.
C23_Broadcast ==
    [][IsBroadcast(op')
          => /\ Len(log') = Len(sessions)
             /\ \A i \in 1..Len(log') : log'[i].id = i
             /\ ret'.k = "list"
             /\ LET sent == {i \in 1..Len(log') : log'[i].ok}
                IN  /\ Len(ret'.v) = Cardinality(sent)
                    /\ \A i \in 1..Len(ret'.v) : ret'.v[i] \in sent
                    /\ \A i, j \in 1..Len(ret'.v) : i < j => ret'.v[i] < ret'.v[j]
             /\ op'.name = "broadcast_picture" /\ op'.arg # <<"packages.png">>
                   => \A i \in 1..Len(log') : log'[i].x = <<"resources/stats_default.png">>]_vars

\* C24: select_menu_button("Back") at depth n >= 3, its send succeeding,
\* returns two levels up: the menu on top afterwards is the entry that was two
\* levels below the former top, not the one directly below it.
C24_BackTwoLevels ==
    [][(IsBack(op') /\ Len(menu_queue) >= 3 /\ AllAccepted(log'))
          => /\ Last(menu_queue') = menu_queue[Len(menu_queue) - 2]
             /\ Last(menu_queue') # menu_queue[Len(menu_queue) - 1]]_vars

\* C25: select_menu_button("Back") at depth n >= 2, its send succeeding,
\* leaves the stack without its top entry, by exactly one Transport send (of
\* the new top), and refreshes the message id and time_alive of the new top
\* only.
C25_BackOneLevel ==
    [][(IsBack(op') /\ Len(menu_queue) >= 2 /\ AllAccepted(log'))
          => LET n == Len(menu_queue)
                 top == menu_queue[n - 1]
             IN  /\ menu_queue' = SubSeq(menu_queue, 1, n - 1)
                 /\ Len(log') = 1 /\ log'[1].t \in SendCalls
                 /\ log'[1].x = Content(Cur, top)
                 /\ ret' = RetInt(log'[1].id)
                 /\ message_id' = [message_id EXCEPT ![top] = log'[1].id]
                 /\ time_alive' = [time_alive EXCEPT ![top] = now]
                 /\ UNCHANGED <<message_queue, label, keyboard, content_previous,
                                keyboard_previous>>]_vars

\* C25, witness: "Back" has been selected at depth 3, at a time when the
\* second menu was not fresh, and has sent the second menu again
C25_Witness ==
    /\ IsBack(op)
    /\ menu_queue = <<"Start", "Second">>
    /\ message_id["Third"] # -1
    /\ Len(log) = 1 /\ log[1].ok
    /\ message_id["Second"] = log[1].id
    /\ time_alive["Second"] = now
    /\ now > 0

\* C26: edit_message returns True exactly when it made a Transport edit call
\* and the Transport accepted it; it returns False when it made none and when
\* the call it made was rejected; it makes one edit call at most and no other
\* Transport call.
C26_EditReturn ==
    [][op'.name = "edit_message"
          => /\ Len(log') <= 1
             /\ \A i \in 1..Len(log') : log'[i].t \in EditCalls
             /\ ret' \in {RetBool(TRUE), RetBool(FALSE)}
             /\ ret' = RetBool(TRUE) <=> (log' # <<>> /\ AllAccepted(log'))]_vars

\* C26 as it is stated: edit_message returns True exactly when it made a
\* Transport edit call, False exactly when it made none.
C26_EditReturnIssued ==
    [][op'.name = "edit_message"
          => ret' = RetBool(Calls(log', EditCalls) # <<>>)]_vars

\* C26, witness: an edit_message has made an edit call that the Transport
\* rejected, and has returned False
C26_Witness ==
    /\ op.name = "edit_message"
    /\ Len(log) = 1
    /\ log[1].t \in EditCalls
    /\ ~log[1].ok
    /\ ret = RetBool(FALSE)

\* the last operation transmitted the message m: it sent it, or edited it, and
\* the Transport accepted
JustTransmitted(m) ==
    /\ In(m, message_queue)
    /\ log # <<>>
    /\ AllAccepted(log)
    /\ \/ /\ op.name = "select_menu_button"
          /\ Last(log).t \in SendCalls
          /\ Last(log).id = message_id[m]
       \/ /\ op.name = "update_and_edit"
          /\ op.arg[1] = m
          /\ ret = RetBool(TRUE)

\* C27: the message m was just transmitted; the application changes it and
\* edits it.  If the content it renders now, or the list of the labels of its
\* buttons, is not the one transmitted, edit_message makes a Transport edit
\* call, whether the keyboard was rebuilt, got a button in an existing row or
\* in a new one, or had a button relabelled.
C27_DiffComplete ==
    [][\A m \in Apps :
          (/\ JustTransmitted(m)
           /\ op'.name = "update_and_edit"
           /\ op'.arg[1] = m
           /\ Transmit(Cur, m)' # Transmit(Cur, m))
             => Calls(log', EditCalls) # <<>>]_vars

\* the sweep ran
IsSweep(o) == o.name = "_expiry_date_checker"

TrackedExpired(m) ==
    /\ In(m, message_queue)
    /\ time_alive[m] + expiry_period(m) < now

\* C29: the sweep being run again and again with its deletes accepted, a
\* tracked application message that has expired does not stay so: it is
\* removed from the queue (or refreshed), wherever it stands in the queue and
\* whatever else has expired; and a sweep removes a message only with a
\* Transport delete of its id.
C29_EventualEviction ==
    /\ \A m \in Apps : TrackedExpired(m) ~> ~TrackedExpired(m)
    /\ [][IsSweep(op')
            => \A m \in Apps :
                  (In(m, message_queue) /\ ~In(m, message_queue'))
                    => \E i \in 1..Len(log') :
                          /\ log'[i].t = "delete_message"
                          /\ log'[i].id = message_id[m]]_vars

\* C29, witness: the two messages that were sent are gone from the queue
\* and from the client, the last of them by the one delete of this sweep
C29_Witness ==
    /\ IsSweep(op)
    /\ message_queue = <<>>
    /\ message_id["ActionA"] \notin shown \cup {-1}
    /\ message_id["Options"] \notin shown \cup {-1}
    /\ Len(Calls(log, {"delete_message"})) = 1
    /\ AllAccepted(log)

\* C30: the sweep leaves alone every tracked application message that has not
\* expired (time_alive + expiry_period >= now): it stays tracked, no Transport
\* delete is made for it, and its message id, label, timestamp and snapshots
\* are unchanged, whatever else the sweep removes and whether the Transport
\* accepts its calls or not.
C30_SweepKeepsAlive ==
    [][IsSweep(op')
          => \A i \in 1..Len(message_queue) :
                LET m == message_queue[i]
                IN  time_alive[m] + expiry_period(m) >= now
                      => /\ In(m, message_queue')
                         /\ \A j \in 1..Len(log') :
                               log'[j].t = "delete_message" => log'[j].id # message_id[m]
                         /\ message_id'[m] = message_id[m]
                         /\ label'[m] = label[m]
                         /\ time_alive'[m] = time_alive[m]
                         /\ content_previous'[m] = content_previous[m]
                         /\ keyboard_previous'[m] = keyboard_previous[m]]_vars

\* C30, witness: a sweep has deleted the action message, which had expired,
\* and has kept the "options" message, which is older than its expiry period
\* but was refreshed when its notification button was pressed
C30_Witness ==
    /\ IsSweep(op)
    /\ Len(Calls(log, {"delete_message"})) = 1
    /\ AllAccepted(log)
    /\ message_queue = <<"Options">>
    /\ message_id["ActionA"] \notin shown \cup {-1}
    /\ message_id["Options"] < message_id["ActionA"]
    /\ time_alive["ActionA"] + expiry_period("ActionA") < now
    /\ time_alive["Options"] > time_alive["ActionA"]
    /\ ~play_pause

\* C31: a sweep in which the Transport rejects the delete of an expired
\* application message lets no error escape: it returns, no message that was
\* tracked and expired is left in the queue, and an expired sub-menu on top of
\* the stack is still collapsed by a send of the root.
C31_DeleteFailureNonFatal ==
    [][(/\ IsSweep(op')
        /\ \E i \in 1..Len(log') : log'[i].t = "delete_message" /\ ~log'[i].ok)
          => /\ ret' # Raised
             /\ \A i \in 1..Len(message_queue) :
                   LET m == message_queue[i]
                   IN  time_alive[m] + expiry_period(m) < now => ~In(m, message_queue')
             /\ (/\ Len(menu_queue) >= 2
                 /\ time_alive[Last(menu_queue)] + expiry_period(Last(menu_queue)) < now)
                   => Calls(log', SendCalls) # <<>>]_vars

\* the token tok resolves, in the state before the step, to a tracked message
\* and to a button of it that has no callable callback and is not a poll button
ResolvesToNoAction(tok) ==
    LET parts == split(tok)
        message == get_message(Cur, parts[1])
        btn == get_button(Cur, message, parts[2][1])
    IN  /\ Len(parts) = 2 /\ Len(parts[2]) = 1
        /\ message # None
        /\ btn # NoButton
        /\ btn.callback \notin Handlers
        /\ btn.btype # "POLL"

\* what a press of a button without an action leaves alone: no handler runs,
\* nothing is sent, edited or deleted, no message is refreshed, and the session
\* is as it was
NoFurtherEffect ==
    /\ Calls(log', {"callback"} \cup SendCalls \cup EditCalls \cup {"delete_message"}) = <<>>
    /\ UNCHANGED <<menu_queue, message_queue, label, message_id, time_alive,
                   keyboard, content_previous, keyboard_previous, play_pause,
                   shared_content, poll, poll_callback, poll_job, shown>>

\* C32: the press of a button that has no callable callback and is not a poll
\* button is acknowledged by exactly one answer_callback_query and has no
\* further effect.
C32_NoActionAcknowledged ==
    [][(op'.name = "app_message_button_callback" /\ ResolvesToNoAction(op'.arg))
          => /\ Len(Calls(log', {"answer_callback_query"})) = 1
             /\ NoFurtherEffect]_vars

\* the calls of the handler of the poll button in the log l
PollHandlerCalls(l) ==
    SelectSeq(l, LAMBDA e : e.t = "callback" /\ e.x[1] = "action_poll")

C34_TimerCancelledFirst ==
    [][/\ op'.name = "poll_answer_await" => ~poll_job'
       /\ op'.name = "poll_delete" => suspended # PollAnswerStep
       /\ (op'.name = "poll_answer_resume" /\ op.name # "poll_answer_await")
            => Calls(log', {"delete_message"}) = <<>>]_vars

\* C35: the deadline job running while a poll awaits its answer deletes the
\* poll message, calls no callback and leaves the session without a pending
\* poll; a poll_answer that comes after it calls no callback and makes no
\* Transport call.
C35_DeadlineIdle ==
    [][/\ (op'.name = "poll_delete" /\ poll_job /\ poll # NoPoll)
            => /\ Len(Calls(log', {"delete_message"})) = 1
               /\ Calls(log', {"delete_message"})[1].id = poll.id
               /\ Calls(log', {"callback"}) = <<>>
               /\ poll' = NoPoll
               /\ ~poll_job'
       /\ (op.name = "poll_delete" /\ op'.name = "poll_answer") => log' = <<>>]_vars

\* the application messages the client shows: in a session whose only menu is
\* the start menu and that sends no poll, every other message of the client
Cards == shown \ {message_id[m] : m \in Menus}

\* C36: once every operation has completed, each application message that was
\* sent and is not deleted is tracked in _message_queue under its current
\* message id, whatever the interleaving of the handlers and the sweeps at
\* their Transport calls.
C36_NoOrphan ==
    suspended = NoStep
      => \A id \in Cards :
            \E i \in 1..Len(message_queue) : message_id[message_queue[i]] = id

\* the conversations of the sessions that send polls
PollChats == 1..(MaxChats + 1)

\* chat.first_name of the conversation c: two users share their first name
first_name(c) == IF c = 1 THEN "Bob" ELSE "Ann"

\* NavigationHandler.poll_name of the session of index i
poll_name(i) == "poll_" \o first_name(sessions[i])

\* NavigationHandler._poll of the session of index i, as the id of the poll
\* message: 0 for None
PollOf(i) == IF i \in DOMAIN session_polls THEN session_polls[i] ELSE 0

\* self._poll = v in the session of index i
SetPoll(i, v) ==
    [k \in DOMAIN session_polls \cup {i} |-> IF k = i THEN v ELSE session_polls[k]]

\* the session, among those of the registry, _poll_answer hands the answer of
\* the user of the conversation c to: the first one with that user_name, 0
\* for None
answer_session(c) ==
    LET at == {i \in 1..Len(sessions) : first_name(sessions[i]) = first_name(c)}
    IN  IF at = {} THEN 0 ELSE CHOOSE i \in at : \A j \in at : i <= j

\* what a poll operation of a session of the registry leaves alone
poll_frame ==
    <<menu_queue, message_queue, label, message_id, time_alive, keyboard,
      content_previous, keyboard_previous, play_pause, shared_content, poll,
      poll_callback, poll_job, now, started, suspended, draft, sessions,
      setup, shared_rows, root, polls, bound, superseded>>

\* the start command comes from a conversation that has no session yet
PollSessionStart ==
    \E c \in PollChats :
        /\ get_session(c) = 0
        /\ send_start_message(c, "_send_start_message")

\* send_poll() of the session of index i, its _poll_callback being bound:
\* poll_delete() when the scheduler has a job of its poll_name, the poll is
\* sent and the deadline job is added under poll_name, replacing the one there
SessionSendPoll ==
    \E i \in 1..Len(sessions) :
        LET has_job == \E j \in jobs : j.id = poll_name(i)
            old == PollOf(i)
            del == has_job /\ old # 0
        IN  /\ nextId <= MaxId
            /\ shown' = (IF del THEN shown \ {old} ELSE shown) \cup {nextId}
            /\ nextId' = nextId + 1
            /\ session_polls' = SetPoll(i, nextId)
            /\ jobs' = add_job(jobs, poll_name(i), i)
            /\ log' = (IF del THEN <<Ev("delete_message", old, old \in shown, <<>>)>>
                       ELSE <<>>)
                        \o <<Ev("send_poll", nextId, TRUE, <<sessions[i]>>)>>
            /\ op' = [name |-> "send_poll", arg |-> <<sessions[i]>>, n |-> i]
            /\ ret' = RetNone
            /\ UNCHANGED poll_frame

\* the scheduler runs a deadline job: poll_delete() of the session it was
\* added for, and the job, which runs once, is gone
SessionPollDelete ==
    \E j \in jobs :
        /\ j.id # SweepJobId(j.session)
        /\ LET old == PollOf(j.session)
           IN  /\ shown' = shown \ {old}
               /\ log' = IF old # 0
                         THEN <<Ev("delete_message", old, old \in shown, <<>>)>>
                         ELSE <<>>
        /\ jobs' = jobs \ {j}
        /\ op' = [name |-> "poll_delete", arg |-> <<sessions[j.session]>>, n |-> j.session]
        /\ ret' = RetNone
        /\ UNCHANGED <<poll_frame, session_polls, nextId>>

\* _poll_answer(update, _): the user of the conversation c answers the poll
\* that was sent there; poll_answer() of the session the registry picks
SessionPollAnswer ==
    \E c \in PollChats :
        LET own == get_session(c)
            i == answer_session(c)
            old == PollOf(i)
        IN  /\ own # 0
            /\ PollOf(own) \in shown
            /\ IF old = 0
               THEN /\ log' = <<>>
                    /\ UNCHANGED <<shown, jobs, session_polls>>
               ELSE /\ log' = <<Ev("callback", old, TRUE, <<i>>),
                                Ev("delete_message", old, old \in shown, <<>>)>>
                    /\ shown' = shown \ {old}
                    /\ jobs' = {j \in jobs : j.id # poll_name(i)}
                    /\ session_polls' = SetPoll(i, 0)
            /\ op' = [name |-> "_poll_answer", arg |-> <<c>>, n |-> i]
            /\ ret' = RetNone
            /\ UNCHANGED <<poll_frame, nextId>>

\* several sessions send polls, their users answer them, deadlines pass
NextPollSessions ==
    \/ PollSessionStart
    \/ SessionSendPoll
    \/ SessionPollDelete
    \/ SessionPollAnswer

SpecPollSessions == Init /\ [][NextPollSessions]_vars

\* C37: a poll started, answered or timed out in one session leaves the poll
\* message and the deadline job of every other session alone, and a poll
\* answer is handed to the session of the conversation the poll was sent in.
C37_PollPerSession ==
    [][op'.name \in {"send_poll", "poll_delete", "_poll_answer"}
         => /\ \A k \in 1..Len(sessions) :
                  k # op'.n
                    => /\ PollOf(k)' = PollOf(k)
                       /\ (PollOf(k) \in shown => PollOf(k) \in shown')
                       /\ \A j \in jobs : j.session = k => j \in jobs'
            /\ op'.name = "_poll_answer" => sessions[op'.n] = op'.arg[1]]_vars

\* the user goes down the menus and selects the buttons that two menus have
\* or that call a handler
NextLookup ==
    \/ SendStartMessage
    \/ SelectMenuButton({"Action", "Second menu", "Third menu", "Back2", "webapp"})

SpecLookup == Init /\ [][NextLookup]_vars

\* the entries of the stack whose keyboard has a button with the label lbl
Holders(lbl) ==
    {i \in 1..Len(menu_queue) :
        \E r \in 1..Len(MenuKeyboard(menu_queue[i])) :
            \E c \in 1..Len(MenuKeyboard(menu_queue[i])[r]) :
                MenuKeyboard(menu_queue[i])[r][c].label = lbl}

\* the callback of the button with the label lbl of the entry closest to the top
TopCallback(lbl) ==
    LET i == CHOOSE i \in Holders(lbl) : \A j \in Holders(lbl) : j <= i
        kb == MenuKeyboard(menu_queue[i])
        at == CHOOSE x \in {<<r, c>> : r \in 1..Len(kb), c \in 1..2} :
                  x[2] <= Len(kb[x[1]]) /\ kb[x[1]][x[2]].label = lbl
    IN  kb[at[1]][at[2]].callback

\* the sends of messages among the Transport calls l
Sends(l) == Calls(l, {"send_message", "send_photo"})

\* the operation acted on a button that opens the menu m and on no other
OpenedMenu(m) ==
    /\ Calls(log', {"callback", "text_input", "kill_message"}) = <<>>
    /\ Len(Sends(log')) = 1
    /\ Sends(log')[1].x = Content(Cur, m)
    /\ message_queue' = message_queue
    /\ \A a \in Apps : time_alive'[a] = time_alive[a]
    /\ menu_queue' = IF Sends(log')[1].ok THEN Append(menu_queue, m) ELSE menu_queue

\* the operation acted on a button that sends the application message m and
\* on no other: m is the one message sent and made alive, and the stack is
\* left alone or, m going home after it, back at the start menu
SentApp(m) ==
    /\ Calls(log', {"callback", "text_input"}) = <<>>
    /\ ret' # Raised
         => /\ Sends(log') # <<>>
            /\ Sends(log')[1].t = (IF picture(m) THEN "send_photo" ELSE "send_message")
            /\ Sends(log')[1].ok => In(m, message_queue')
    /\ \A a \in Apps \ {m} :
          /\ time_alive'[a] = time_alive[a]
          /\ In(a, message_queue') <=> In(a, message_queue)
    /\ \A i \in 2..Len(Sends(log')) : Sends(log')[i].x = Content(Cur, root)
    /\ menu_queue' \in {menu_queue, <<root>>, <<>>}

\* the operation called the handler h once, before any call of the
\* Transport, and what follows is the handler's: nothing for webapp_cb, the
\* way back for goto_back
CalledHandler(h) ==
    /\ Calls(log', {"callback"}) = <<Ev("callback", 0, TRUE, <<h>>)>>
    /\ log'[1].t = "callback"
    /\ message_queue' = message_queue
    /\ \A a \in Apps : time_alive'[a] = time_alive[a]
    /\ h = "webapp_cb" => Len(log') = 1 /\ menu_queue' = menu_queue
    /\ h = "goto_back"
         => \E F \in Rejections :
               /\ menu_queue' = select_menu_button_back(Cur, F).s.menu_queue
               /\ Tail(log') = select_menu_button_back(Cur, F).s.log

\* C38: for a label other than "Back" and "Home" that a stack entry has a
\* button for, select_menu_button acts on the button of the entry closest to
\* the top and on that one only; a handler is called once, and the stack and
\* the application messages are changed by nothing but the handler.
C38_LookupOrder ==
    [][(/\ op'.name = "select_menu_button"
        /\ op'.arg[1] \notin {"Back", "Home"}
        /\ Holders(op'.arg[1]) # {})
         => LET cb == TopCallback(op'.arg[1])
            IN  /\ cb \in Menus \cup Apps \cup MenuHandlers
                /\ cb \in Menus => OpenedMenu(cb)
                /\ cb \in Apps => SentApp(cb)
                /\ cb \in MenuHandlers => CalledHandler(cb)]_vars

\* C38 witness: "Action" was selected with the second menu above the start
\* menu, both having a button "Action": the message of the second menu's
\* button was sent, as a picture, and is tracked.
C38_Witness ==
    /\ op.name = "select_menu_button" /\ op.arg = <<"Action">>
    /\ In("ActionB", message_queue)
    /\ ~In("ActionA", message_queue)
    /\ Sends(log) # <<>> /\ Sends(log)[1].t = "send_photo" /\ Sends(log)[1].ok

\* the user sends texts that are the label of no button, between selections
\* that send messages and open menus, as time passes
NextFreeText ==
    \/ SendStartMessage
    \/ SelectMenuButton({"Action", "Option", "Second menu", "Home", "hello"})
    \/ Tick

SpecFreeText == Init /\ [][NextFreeText]_vars

\* the tracked messages: the top of the stack and the application messages
Tracked ==
    (IF menu_queue = <<>> THEN {} ELSE {Last(menu_queue)})
        \cup {message_queue[i] : i \in 1..Len(message_queue)}

\* the text lbl went once to the text_input hook of a tracked message that no
\* tracked message is more recent than, the top of the stack unless an
\* application message is more recent, and nothing else was called
ForwardedOnce(lbl) ==
    /\ menu_queue # <<>>
    /\ Len(log') = 1
    /\ log'[1].t = "text_input"
    /\ log'[1].x[2] = lbl
    /\ LET m == log'[1].x[1]
       IN  /\ m \in Tracked
           /\ \A a \in Tracked : time_alive[a] <= time_alive[m]
           /\ m # Last(menu_queue) => time_alive[m] > time_alive[Last(menu_queue)]

\* C39: select_menu_button with a label that no stack entry has a button for
\* forwards the text once to the text_input hook of the most recent tracked
\* message, returns None, calls nothing of the Transport and leaves the
\* stack and the application messages as they are.
C39_FreeTextRouting ==
    [][(/\ op'.name = "select_menu_button"
        /\ op'.arg[1] \notin {"Back", "Home"}
        /\ Holders(op'.arg[1]) = {})
         => /\ ForwardedOnce(op'.arg[1])
            /\ ret' = RetNone
            /\ menu_queue' = menu_queue
            /\ message_queue' = message_queue]_vars

\* C40: from the construction of a message on and after every add_button,
\* with new_row or without, no row of the keyboard is empty.
C40_RowsNonEmpty ==
    \A r \in 1..Len(draft.keyboard) : draft.keyboard[r] # <<>>

====
